---- MODULE Spec2Model ----
(***************************************************************************)
(* Model of the p2p bootstrap node (tracker) of src/p2p-cp/cp.go.          *)
(*                                                                         *)
(* Two goroutines share the tracker's state without a lock: the receive    *)
(* loop (main: for { dht.Listen(conn) }) and the ping task (go dht.Ping).   *)
(* One call of Listen is one action; the ping task is one action per        *)
(* iteration of each of its loops, so datagrams are handled between the     *)
(* sweep of two nodes, between the sweep and the removals, and between two  *)
(* removals.                                                                *)
(*                                                                         *)
(* The forwarder (Proxy of src/p2p-cp/cp.go) is a second program: one call   *)
(* of Proxy.HandleMessage is one action.                                    *)
(*                                                                         *)
(* The peer table (PeerList) is part of the client: one call of Update or  *)
(* Delete, made under the table's lock, is one action. The table holds     *)
(* pointers: peers[id] is the NetworkPeer the drivers (NetworkPeer.Run) and *)
(* the receive task of the client work on. One call of a state handler is   *)
(* one action, but for the handlers that wait, which are one action per     *)
(* round of their loop.                                                     *)
(*                                                                         *)
(* The tracker client (DHTClient of src/unnamed/part_000) is the part of   *)
(* the client that talks to the trackers: Initialize is one action, and so *)
(* are one datagram handled by a ListenDHT goroutine and one call of        *)
(* UpdatePeers. The texts it splits at commas are sequences of characters.  *)
(*                                                                         *)
(* Addresses are pairs <<ip, port>>; the empty string is <<>> and the text  *)
(* "<nil>" that String() yields for a nil UDPAddr is NilAddr.               *)
(***************************************************************************)
EXTENDS Integers, Sequences, FiniteSets, TLC

\* ------------------------------------------------------------------ bounds

\* Largest number of nodes the environment lets the node list hold.
MaxNodes == 2

\* Largest number of tunnels the environment has a forwarder make from its
\* start.
MaxTunnels == 3

\* Largest number of RunPeer calls the environment makes for one peer while
\* its earlier drivers run.
MaxDrivers == 2

\* Largest number of trackers in the list a client is configured with.
MaxRouters == 2

\* Largest number of characters in the dest of a find reply, and largest
\* number of peers the environment lets a client catch.
MaxDest == 3
MaxCatch == 2

\* Largest number of goroutines of stateConnecting that are followed for a
\* peer.
MaxSenders == 2

\* The width of a tunnel id in the model. The code's uint16 has 16 bits; a
\* table with a tunnel for every id is within reach of the search at this
\* width, and the wrap of uint16(i) is the same at every width.
IdBits == 3

\* ------------------------------------------------------- program constants

\* if NodeList[i].MissedPing >= 4
MissedPingLimit == 4

\* dht.Hashes: declared, never appended to.
Hashes == <<>>

\* ------------------------------------------------------------ environment

\* Source addresses datagrams arrive from, per part of the tracker that is
\* checked: clients (two of them behind one IP), pinged nodes, forwarders
\* (two of them on one IP).
ClientAddrs == {<<"10.0.0.1", 5001>>, <<"10.0.0.1", 5002>>, <<"10.0.0.2", 5001>>}
PingAddrs == {<<"10.0.0.1", 5001>>, <<"10.0.0.2", 5001>>, <<"10.0.0.9", 7000>>}
CPAddrs == {<<"10.0.0.9", 7000>>, <<"10.0.0.9", 7001>>, <<"10.0.0.8", 7000>>,
            <<"10.0.0.7", 7000>>}
CPIPs == {a[1] : a \in CPAddrs}

\* The values of the uuid library (uuid.NewTimeBased).
UUIDs == {"u1", "u2", "u3", "u4"}

\* The p field of a conn: a bare port, or the port followed by the "|"
\* separated local addresses of the sender (ConnectAndHandshake).
BarePorts == {4000, 5000}
PortFields == {<<4000>>, <<5000>>, <<4000, "10.1.1.1">>}

\* The h field of a find: absent/empty, or a network fingerprint.
FindHashes == {"", "net-X", "net-Y"}

EmptyString == <<>>
NilAddr == <<"<nil>">>

VARIABLES
    NodeList,      \* var NodeList []Node
    ControlPeers,  \* dht.ControlPeers, a sequence of addresses
    pingPc,        \* where the ping task is: sleep, sweep, remove, crashed
    removeKeys,    \* Ping's removeKeys (indices are 1-based here)
    sweepI,        \* Ping's range index over NodeList
    sweepN,        \* length of NodeList when the range statement started
    dialFails,     \* the IPs for which net.DialUDP returns an error now
    stopped,       \* the forwarder addresses whose process has been stopped
    lastReq,       \* the datagram handled by the last step (NoReq if none)
    sent,          \* the datagram sent by the last step (NoSend if none)
    Tunnels,       \* Proxy.Tunnels, a function from tunnel id to Tunnel
    lastMsg,       \* the frame the forwarder handled in the last step
    fwd,           \* the frame the forwarder sent in the last step
    peers,         \* PeerList.peers, a function from peer id to NetworkPeer
    tableIPID,     \* PeerList.tableIPID, a function from IP text to peer id
    tableMacID,    \* PeerList.tableMacID, a function from MAC text to peer id
    lastOp,        \* the operation on the peer table made by the last step
    drivers,       \* per peer id, the goroutines running NetworkPeer.Run
    lastRun,       \* what a driver did in the last step (NoRun if none did)
    dht,           \* the DHTClient of the client
    lastDht,       \* what the tracker client did in the last step
    HolePunching,  \* PeerToPeer.HolePunching, a mutex: TRUE while locked
    senders        \* per peer id, the goroutines started by stateConnecting

vars == <<NodeList, ControlPeers, pingPc, removeKeys, sweepI, sweepN,
          dialFails, stopped, lastReq, sent, Tunnels, lastMsg, fwd,
          peers, tableIPID, tableMacID, lastOp, drivers, lastRun,
          dht, lastDht, HolePunching, senders>>

pingVars == <<pingPc, removeKeys, sweepI, sweepN>>
envVars == <<dialFails, stopped>>
trackerVars == <<NodeList, ControlPeers, pingVars, envVars, lastReq, sent>>
proxyVars == <<Tunnels, lastMsg, fwd>>
tableVars == <<peers, tableIPID, tableMacID, lastOp>>

\* What a step of the tracker, of the forwarder, and of the client, leaves
\* alone.
driverVars == <<drivers, lastRun>>
dhtVars == <<dht, lastDht>>
nonTrackerVars == <<proxyVars, tableVars, driverVars, dhtVars, HolePunching, senders>>
nonProxyVars == <<trackerVars, tableVars, driverVars, dhtVars, HolePunching, senders>>
nonClientVars == <<trackerVars, proxyVars, dht>>
nonDhtVars ==
    <<trackerVars, proxyVars, peers, tableIPID, tableMacID, drivers, HolePunching,
      senders>>

NoReq == [addr |-> EmptyString, cmd |-> "", hash |-> "", port |-> <<>>]
\* The text "0" of resp.Id and resp.Dest, as a dest.
ZeroText == <<"0">>

NoSend == [to |-> EmptyString, cmd |-> "", id |-> "", dest |-> EmptyString]

Request(addr, cmd, hash, port) ==
    [addr |-> addr, cmd |-> cmd, hash |-> hash, port |-> port]

\* ------------------------------------------------------------------ nodes

\* type Node. Addr is the address ConnectionAddress is the text of; LastPing
\* is never written. silent is a history field, not a field of the code: the
\* number of sweeps that visited the node since it was registered or since a
\* ping of it was handled, counted up to 2 and kept once it is 2.
NewNode(addr, id) ==
    [ID |-> id, Endpoint |-> EmptyString, ConnectionAddress |-> addr,
     AssociatedHash |-> "", MissedPing |-> 0, Disabled |-> FALSE,
     silent |-> 0]

\* var n Node
ZeroNode ==
    [ID |-> "", Endpoint |-> EmptyString, ConnectionAddress |-> EmptyString,
     AssociatedHash |-> "", MissedPing |-> 0, Disabled |-> FALSE,
     silent |-> 0]

Indices(list) == 1..Len(list)

Min(S) == CHOOSE x \in S : \A y \in S : x <= y
Max(S) == CHOOSE x \in S : \A y \in S : y <= x

\* Node.GenerateID: the values it can return when the library returns the
\* values of lib: those that are the Hash of no entry of hashes (it generates
\* again on such a collision).
GenerateID(lib, hashes) ==
    {u \in lib : \A k \in Indices(hashes) : hashes[k].Hash # u}

\* IsNewPeer comparing the declared endpoint instead of the address the
\* datagram came from.
IsNewPeerByEndpoint(list, addr) ==
    \A k \in Indices(list) : list[k].Endpoint # addr

\* DHTRouter.IsNewPeer
IsNewPeer(list, addr) ==
    \A k \in Indices(list) : list[k].ConnectionAddress # addr

\* net.ResolveUDPAddr("udp", ip + ":" + req.Port) followed by a.String():
\* a port field that is not a bare port does not resolve, a is nil.
ResolveEndpoint(ip, port) ==
    IF Len(port) = 1 /\ port[1] \in BarePorts THEN <<ip, port[1]>> ELSE NilAddr

\* The loop of DHTRouter.ResponseConn.
SetEndpoint(list, addr, port) ==
    [k \in Indices(list) |->
        IF list[k].ConnectionAddress = addr
        THEN [list[k] EXCEPT !.Endpoint = ResolveEndpoint(addr[1], port)]
        ELSE list[k]]

\* resp.Id of DHTRouter.ResponseConn
ResponseConnId(n) == n.ID

\* DHTRouter.RegisterHash
RegisterHash(list, addr, hash) ==
    [k \in Indices(list) |->
        IF list[k].ConnectionAddress = addr
        THEN [list[k] EXCEPT !.AssociatedHash = hash]
        ELSE list[k]]

\* foundDest of DHTRouter.ResponseFind: one element, followed by a comma,
\* per node; the sequence of the elements.
RECURSIVE FoundDest(_, _, _)
FoundDest(list, addr, hash) ==
    IF list = <<>> THEN <<>>
    ELSE LET node == Head(list)
             rest == FoundDest(Tail(list), addr, hash)
         IN IF node.AssociatedHash = hash /\ node.ConnectionAddress # addr
            THEN <<node.Endpoint>> \o rest
            ELSE rest

\* hashExists of DHTRouter.ResponseFind
HashExists(list, addr, hash) ==
    \E k \in Indices(list) :
        list[k].AssociatedHash = hash /\ list[k].ConnectionAddress = addr

\* The node list after DHTRouter.ResponseFind.
FindNodeList(list, addr, hash) ==
    IF HashExists(list, addr, hash) THEN list
    ELSE RegisterHash(list, addr, hash)

\* The ping case leaving MissedPing as it is.
ResetMissedPingNot(list, addr) ==
    [k \in Indices(list) |->
        IF list[k].ConnectionAddress = addr
        THEN [list[k] EXCEPT !.silent = IF @ = 2 THEN 2 ELSE 0]
        ELSE list[k]]

\* case commons.CMD_PING of DHTRouter.Listen
ResetMissedPing(list, addr) ==
    [k \in Indices(list) |->
        IF list[k].ConnectionAddress = addr
        THEN [list[k] EXCEPT !.MissedPing = 0,
                             !.silent = IF @ = 2 THEN 2 ELSE 0]
        ELSE list[k]]

\* ------------------------------------------------------------- forwarders

\* ControlPeer.ValidateConnection: true when net.DialUDP returns no error.
\* Nothing is sent to the forwarder, so whether it runs plays no part.
ValidateConnection(cp) == cp[1] \notin dialFails

\* ResponseRegCP telling a forwarder of the pool by its whole address, not
\* by its IP.
RegCPPoolByAddr(pool, addr) ==
    IF \E k \in Indices(pool) : pool[k] = addr THEN pool
    ELSE IF ~ValidateConnection(addr) THEN pool
    ELSE Append(pool, addr)

\* The pool after DHTRouter.ResponseRegCP.
RegCPPool(pool, addr) ==
    IF \E k \in Indices(pool) : pool[k][1] = addr[1] THEN pool
    ELSE IF ~ValidateConnection(addr) THEN pool
    ELSE Append(pool, addr)

\* resp.Command of DHTRouter.ResponseRegCP
RegCPCommand(pool, addr) ==
    IF \E k \in Indices(pool) : pool[k][1] = addr[1] THEN ""
    ELSE IF ~ValidateConnection(addr) THEN ""
    ELSE "regcp"

\* resp.Dest of DHTRouter.ResponseCP: the loop assigns for every forwarder
\* that validates and does not stop at the first.
RECURSIVE CPDestFrom(_, _)
CPDestFrom(pool, dest) ==
    IF pool = <<>> THEN dest
    ELSE CPDestFrom(Tail(pool),
                    IF ValidateConnection(Head(pool)) THEN Head(pool) ELSE dest)

\* ResponseCP with a break after the first forwarder that validates.
RECURSIVE ResponseCPDestFirst(_)
ResponseCPDestFirst(pool) ==
    IF pool = <<>> THEN ZeroText
    ELSE IF ValidateConnection(Head(pool)) THEN Head(pool)
         ELSE ResponseCPDestFirst(Tail(pool))

ResponseCPDest(pool) == CPDestFrom(pool, ZeroText)

\* resp.Command of DHTRouter.ResponseCP: the command of the request, for the
\* cp case and for the badcp case of Listen alike.
ResponseCPCommand(req) == req.cmd

\* case commons.CMD_BADCP of DHTRouter.Listen, the removal loop: the first
\* forwarder whose address is the request's hash and that does not validate
\* is removed.
RECURSIVE RemoveBadCP(_, _)
RemoveBadCP(pool, hash) ==
    IF pool = <<>> THEN <<>>
    ELSE IF Head(pool) = hash /\ ~ValidateConnection(Head(pool))
         THEN Tail(pool)
         ELSE <<Head(pool)>> \o RemoveBadCP(Tail(pool), hash)

\* ----------------------------------------------------------------- Listen

\* DHTRouter.Listen for one datagram req from addr, uuid being what the uuid
\* library returns if it is asked.
Listen(addr, req, uuid) ==
    /\ pingPc # "crashed"
    /\ LET isNew == IsNewPeer(NodeList, addr)
           n == IF isNew THEN NewNode(addr, uuid) ELSE ZeroNode
           list == IF isNew THEN Append(NodeList, n) ELSE NodeList
       IN /\ isNew => Len(NodeList) < MaxNodes
          /\ lastReq' = req
          /\ CASE req.cmd = "conn" ->
                    /\ NodeList' = SetEndpoint(list, addr, req.port)
                    /\ sent' = [to |-> addr, cmd |-> "conn",
                                id |-> ResponseConnId(n), dest |-> ZeroText]
                    /\ UNCHANGED ControlPeers
               [] req.cmd = "find" ->
                    /\ NodeList' = FindNodeList(list, addr, req.hash)
                    /\ sent' = [to |-> addr, cmd |-> "find", id |-> "0",
                                dest |-> FoundDest(list, addr, req.hash)]
                    /\ UNCHANGED ControlPeers
               [] req.cmd = "ping" ->
                    /\ NodeList' = ResetMissedPing(list, addr)
                    /\ sent' = NoSend
                    /\ UNCHANGED ControlPeers
               [] req.cmd = "regcp" ->
                    /\ NodeList' = list
                    /\ ControlPeers' = RegCPPool(ControlPeers, addr)
                    /\ sent' = IF RegCPCommand(ControlPeers, addr) = ""
                               THEN NoSend
                               ELSE [to |-> addr, cmd |-> "regcp",
                                     id |-> "0", dest |-> ZeroText]
               [] req.cmd = "cp" ->
                    /\ NodeList' = list
                    /\ sent' = [to |-> addr, cmd |-> ResponseCPCommand(req),
                                id |-> "0",
                                dest |-> ResponseCPDest(ControlPeers)]
                    /\ UNCHANGED ControlPeers
               [] req.cmd = "badcp" ->
                    /\ NodeList' = list
                    /\ ControlPeers' = RemoveBadCP(ControlPeers, req.hash)
                    /\ sent' = [to |-> addr, cmd |-> ResponseCPCommand(req),
                                id |-> "0",
                                dest |-> ResponseCPDest(ControlPeers')]
               [] OTHER ->
                    /\ NodeList' = list
                    /\ sent' = NoSend
                    /\ UNCHANGED ControlPeers
    /\ UNCHANGED <<pingVars, envVars, nonTrackerVars>>

\* -------------------------------------------------------------- ping task

\* append(NodeList[:i], NodeList[i+1:]...), i counted from 1.
RemoveAt(list, i) ==
    [k \in 1..(Len(list) - 1) |-> IF k < i THEN list[k] ELSE list[k + 1]]

\* sort.Sort(sort.Reverse(sort.IntSlice(removeKeys)))
RECURSIVE SortDesc(_)
SortDesc(keys) ==
    IF keys = <<>> THEN <<>>
    ELSE LET m == CHOOSE k \in Indices(keys) :
                      \A j \in Indices(keys) : keys[j] <= keys[k]
         IN <<keys[m]>> \o SortDesc(RemoveAt(keys, m))

\* The increment and the test of one iteration of Ping's sweep.
SweepNode(node) ==
    [node EXCEPT !.MissedPing = @ + 1,
                 !.Disabled = @ \/ node.MissedPing + 1 >= MissedPingLimit,
                 !.silent = IF @ < 2 THEN @ + 1 ELSE 2]

\* time.Sleep returns; the range statement of the sweep reads NodeList.
PingWake ==
    /\ pingPc = "sleep"
    /\ pingPc' = "sweep"
    /\ sweepI' = 1
    /\ sweepN' = Len(NodeList)
    /\ lastReq' = NoReq
    /\ sent' = NoSend
    /\ UNCHANGED <<NodeList, ControlPeers, removeKeys, envVars, nonTrackerVars>>

\* One iteration of the sweep.
PingSweepNode ==
    /\ pingPc = "sweep"
    /\ sweepI <= sweepN
    /\ NodeList' = [NodeList EXCEPT ![sweepI] = SweepNode(@)]
    /\ removeKeys' = IF NodeList'[sweepI].MissedPing >= MissedPingLimit
                     THEN Append(removeKeys, sweepI)
                     ELSE removeKeys
    /\ sweepI' = sweepI + 1
    /\ lastReq' = NoReq
    /\ sent' = [to |-> NodeList[sweepI].ConnectionAddress, cmd |-> "ping",
                id |-> "0", dest |-> ZeroText]
    /\ UNCHANGED <<ControlPeers, pingPc, sweepN, envVars, nonTrackerVars>>

\* The sweep is over: removeKeys is sorted and the for loop starts again.
PingSweepDone ==
    /\ pingPc = "sweep"
    /\ sweepI > sweepN
    /\ removeKeys' = SortDesc(removeKeys)
    /\ pingPc' = "remove"
    /\ lastReq' = NoReq
    /\ sent' = NoSend
    /\ UNCHANGED <<NodeList, ControlPeers, sweepI, sweepN, envVars, nonTrackerVars>>

\* One iteration of the removal loop: the node is removed, then the log line
\* reads NodeList[i] of the shortened list and panics when i is past its end.
PingRemoveKey ==
    /\ pingPc = "remove"
    /\ removeKeys # <<>>
    /\ NodeList' = RemoveAt(NodeList, Head(removeKeys))
    /\ removeKeys' = Tail(removeKeys)
    /\ pingPc' = IF Head(removeKeys) > Len(NodeList') THEN "crashed" ELSE "remove"
    /\ lastReq' = NoReq
    /\ sent' = NoSend
    /\ UNCHANGED <<ControlPeers, sweepI, sweepN, envVars, nonTrackerVars>>

\* removeKeys = removeKeys[:0]; time.Sleep
PingRemoveDone ==
    /\ pingPc = "remove"
    /\ removeKeys = <<>>
    /\ pingPc' = "sleep"
    /\ lastReq' = NoReq
    /\ sent' = NoSend
    /\ UNCHANGED <<NodeList, ControlPeers, removeKeys, sweepI, sweepN, envVars,
                 nonTrackerVars>>

Ping == PingWake \/ PingSweepNode \/ PingSweepDone \/ PingRemoveKey \/ PingRemoveDone

\* ------------------------------------------------------------ environment

\* The network changes: net.DialUDP to ip starts or stops returning an error.
NetChange(ip) ==
    /\ pingPc # "crashed"
    /\ dialFails' = IF ip \in dialFails THEN dialFails \ {ip} ELSE dialFails \cup {ip}
    /\ lastReq' = NoReq
    /\ sent' = NoSend
    /\ UNCHANGED <<NodeList, ControlPeers, pingVars, stopped, nonTrackerVars>>

\* The process of a forwarder of the pool is stopped.
StopCP(addr) ==
    /\ pingPc # "crashed"
    /\ \E k \in Indices(ControlPeers) : ControlPeers[k] = addr
    /\ addr \notin stopped
    /\ stopped' = stopped \cup {addr}
    /\ lastReq' = NoReq
    /\ sent' = NoSend
    /\ UNCHANGED <<NodeList, ControlPeers, pingVars, dialFails, nonTrackerVars>>

\* -------------------------------------------------------------- datagrams

\* What the uuid library returns. In AnyUUID it is any of its values, one
\* it has returned before included; in FreshUUID it is a value that is the
\* ID of no node.
AnyUUID == UUIDs

FreshUUID ==
    LET fresh == {u \in UUIDs : \A k \in Indices(NodeList) : NodeList[k].ID # u}
    IN IF fresh = {} THEN {} ELSE {CHOOSE u \in fresh : TRUE}

\* n.ID = n.GenerateID(dht.Hashes), called for a new peer only.
NewID(addr, lib) ==
    IF IsNewPeer(NodeList, addr) THEN GenerateID(lib, Hashes) ELSE {""}

RecvConn(addrs, lib) ==
    \E addr \in addrs, port \in PortFields : \E uuid \in NewID(addr, lib) :
        Listen(addr, Request(addr, "conn", "0", port), uuid)

RecvFind(addrs, lib) ==
    \E addr \in addrs, hash \in FindHashes : \E uuid \in NewID(addr, lib) :
        Listen(addr, Request(addr, "find", hash, <<>>), uuid)

RecvPing(addrs, lib) ==
    \E addr \in addrs : \E uuid \in NewID(addr, lib) :
        Listen(addr, Request(addr, "ping", "0", <<>>), uuid)

\* A datagram that does not decode, or whose command the tracker does not know.
RecvOther(addrs, lib) ==
    \E addr \in addrs : \E uuid \in NewID(addr, lib) :
        Listen(addr, Request(addr, "", "", <<>>), uuid)

RecvRegCP(addrs, lib) ==
    \E addr \in addrs : \E uuid \in NewID(addr, lib) :
        Listen(addr, Request(addr, "regcp", "0", <<>>), uuid)

RecvCP(addrs, lib) ==
    \E addr \in addrs : \E uuid \in NewID(addr, lib) :
        Listen(addr, Request(addr, "cp", "0", <<>>), uuid)

RecvBadCP(addrs, lib) ==
    \E addr \in addrs, hash \in CPAddrs : \E uuid \in NewID(addr, lib) :
        Listen(addr, Request(addr, "badcp", hash, <<>>), uuid)

\* -------------------------------------------------------------- forwarder

\* The tunnel ids are unsigned integers of IdBits bits (Tunnels
\* map[uint16]Tunnel): uint16(i) is i modulo IdModulus and MaxId is the
\* largest id.
IdModulus == 2 ^ IdBits
MaxId == IdModulus - 1

\* commons.MT_PROXY, and two of the other types of a frame.
MT_PROXY == 7
MT_ENC == 4
MT_PING == 5

\* Where frames come from, what the payload of a PROXY frame is (the text of
\* an address, or a text that does not resolve), and the proxy-id of the
\* header of the other frames.
ProxyAddrs == {<<"10.0.1.1", 4000>>, <<"10.0.1.2", 5000>>, <<"10.0.1.3", 6000>>}
ProxyPayloads == {<<"10.0.1.1", 4000>>, <<"10.0.1.2", 5000>>, <<"junk">>}
DataTypes == {MT_ENC, MT_PING}
ProxyIds == {0, 1, 2, MaxId}

\* A *net.UDPAddr: ref tells one allocation from another, addr is what
\* String() returns. The nil pointer is ref 0.
Ptr(ref, addr) == [ref |-> ref, addr |-> addr]
NilPtr == Ptr(0, NilAddr)

\* net.ResolveUDPAddr("udp", data): a new UDPAddr, or nil with an error
\* nothing looks at.
ResolveUDPAddr(ref, data) ==
    IF Len(data) = 2 THEN Ptr(ref, data) ELSE NilPtr

\* uint16(i)
Uint16(i) == i % IdModulus

NoMsg == [src |-> EmptyString, type |-> -1, id |-> -1, data |-> EmptyString]
NoFwd == [to |-> EmptyString, type |-> -1, id |-> -1, data |-> EmptyString]

\* The ids for which the loop over p.Tunnels assigns responseId:
\* tunnel.Peer1 == src_addr and its like compare two pointers.
MatchingIds(tunnels, src_addr, targetIp) ==
    {id \in DOMAIN tunnels :
        \/ /\ tunnels[id].Peer1.ref = src_addr.ref
           /\ tunnels[id].Peer2.ref = targetIp.ref
        \/ /\ tunnels[id].Peer1.ref # src_addr.ref
           /\ tunnels[id].Peer2.ref = src_addr.ref
           /\ tunnels[id].Peer1.ref = targetIp.ref}

\* The values of i for which the allocation loop finds uint16(i) unused.
FreeIds(tunnels) ==
    {i \in 1..(Cardinality(DOMAIN tunnels) + 1) : Uint16(i) \notin DOMAIN tunnels}

\* for i := 1; i < len(p.Tunnels)+2; i++: the first i whose uint16 is no
\* key, or -1 (responseId as it was) when the loop ends without one.
NewTunnelId(tunnels) ==
    IF FreeIds(tunnels) = {} THEN -1 ELSE Min(FreeIds(tunnels))

\* The data branch sending to the endpoint the frame came from.
ForwardToSender(tunnels, src, id) ==
    IF id \notin DOMAIN tunnels THEN EmptyString
    ELSE IF tunnels[id].Peer1.addr = src THEN tunnels[id].Peer1.addr
    ELSE IF tunnels[id].Peer2.addr = src THEN tunnels[id].Peer2.addr
    ELSE EmptyString

\* The else branch of HandleMessage: whom the frame is sent to, EmptyString
\* when it is sent to nobody. The endpoints are compared by their text.
ForwardTo(tunnels, src, id) ==
    IF id \notin DOMAIN tunnels THEN EmptyString
    ELSE IF tunnels[id].Peer1.addr = src THEN tunnels[id].Peer2.addr
    ELSE IF tunnels[id].Peer2.addr = src THEN tunnels[id].Peer1.addr
    ELSE EmptyString

\* Proxy.HandleMessage for a frame that decodes. The three UDPAddr of the
\* call (src_addr, targetIp, t.Peer2) are new allocations: their refs are
\* past those of every tunnel, each tunnel holding two of the three refs of
\* the call that made it.
HandleMessage(src, type, id, data) ==
    LET used == 3 * Cardinality(DOMAIN Tunnels)
        src_addr == Ptr(used + 1, src)
        targetIp == ResolveUDPAddr(used + 2, data)
        t == [Peer1 |-> src_addr, Peer2 |-> ResolveUDPAddr(used + 3, data)]
        matching == MatchingIds(Tunnels, src_addr, targetIp)
    IN /\ lastMsg' = [src |-> src, type |-> type, id |-> id, data |-> data]
       /\ IF type = MT_PROXY
          THEN \E found \in (IF matching = {} THEN {-1} ELSE matching) :
                   LET responseId == IF found = -1 THEN NewTunnelId(Tunnels)
                                     ELSE found
                   IN /\ Tunnels' = IF found = -1 /\ responseId # -1
                                    THEN (Uint16(responseId) :> t) @@ Tunnels
                                    ELSE Tunnels
                      /\ fwd' = [to |-> src, type |-> MT_PROXY,
                                 id |-> responseId, data |-> data]
          ELSE /\ Tunnels' = Tunnels
               /\ fwd' = IF ForwardTo(Tunnels, src, id) = EmptyString
                         THEN NoFwd
                         ELSE [to |-> ForwardTo(Tunnels, src, id),
                               type |-> type, id |-> id, data |-> data]
       /\ UNCHANGED nonProxyVars

\* A PROXY frame arrives. The environment sends the frames that make the
\* first MaxTunnels tunnels of a forwarder, and any frame to a forwarder
\* whose table holds MaxId tunnels or more.
RecvProxy ==
    \E src \in ProxyAddrs, data \in ProxyPayloads :
        /\ \/ Cardinality(DOMAIN Tunnels) < MaxTunnels
           \/ Cardinality(DOMAIN Tunnels) >= MaxId
        /\ HandleMessage(src, MT_PROXY, 0, data)

\* A frame of another type arrives.
RecvData ==
    \E src \in ProxyAddrs, type \in DataTypes, id \in ProxyIds :
        HandleMessage(src, type, id, <<"payload">>)

\* ---------------------------------------------------------- tracker client

\* The characters of the texts the client splits, but the comma.
Chars == {"a", "b"}
Comma == ","

\* strings.Split(text, ","): a text without comma is its only element.
RECURSIVE Split(_)
Split(text) ==
    IF \A i \in Indices(text) : text[i] # Comma
    THEN <<text>>
    ELSE LET i == Min({j \in Indices(text) : text[j] = Comma})
         IN <<SubSeq(text, 1, i - 1)>> \o Split(SubSeq(text, i + 1, Len(text)))

\* The text of a list of elements with a comma between two of them.
RECURSIVE Join(_)
Join(list) ==
    IF Len(list) = 0 THEN <<>>
    ELSE IF Len(list) = 1 THEN list[1]
    ELSE list[1] \o <<Comma>> \o Join(Tail(list))

\* UpdateLastCatch that appends every element that is no known peer, the
\* empty one as well.
RECURSIVE MergeCatchWithEmpty(_, _)
MergeCatchWithEmpty(LastCatch, found) ==
    IF found = <<>> THEN LastCatch
    ELSE LET p == Head(found)
         IN IF \E k \in Indices(LastCatch) : LastCatch[k] = p
            THEN MergeCatchWithEmpty(LastCatch, Tail(found))
            ELSE MergeCatchWithEmpty(Append(LastCatch, p), Tail(found))

\* The loop of UpdateLastCatch over the elements of the split text.
RECURSIVE MergeCatch(_, _)
MergeCatch(LastCatch, found) ==
    IF found = <<>> THEN LastCatch
    ELSE LET p == Head(found)
         IN IF p = <<>> \/ \E k \in Indices(LastCatch) : LastCatch[k] = p
            THEN MergeCatch(LastCatch, Tail(found))
            ELSE MergeCatch(Append(LastCatch, p), Tail(found))

\* DHTClient.UpdateLastCatch
UpdateLastCatch(LastCatch, catch) == MergeCatch(LastCatch, Split(catch))

\* DHTClient.Compose: the request, with "0" for an id or a hash that is
\* empty.
Compose(command, id, hash) ==
    [cmd |-> command, id |-> IF id # "" THEN id ELSE "0",
     hash |-> IF hash # "" THEN hash ELSE "0"]

\* conn.Write of a request on the connection to a tracker.
Written(router, req) ==
    [to |-> router, cmd |-> req.cmd, id |-> req.id, hash |-> req.hash]

\* The names of the trackers, the lists a client is configured with, the
\* fingerprints of its network, the ids a tracker gives, and the dest of a
\* find reply.
RouterNames == {<<"a">>, <<"b">>}
RouterLists == UNION {[1..n -> RouterNames] : n \in 1..MaxRouters}
NetworkHashes == {"", "net-X"}
DhtIds == {"u1", "u2"}
DestTexts == UNION {[1..n -> Chars \cup {Comma}] : n \in 0..MaxDest}

\* DHTClientConfig, and what the fields of a DHTClient are before Initialize.
\* Listening is not a field of the code: the connections a ListenDHT
\* goroutine reads from, as indices of Connection.
DHTClientConfig ==
    [Routers |-> <<>>, FailedRouters |-> <<>>, Connection |-> <<>>,
     NetworkHash |-> "", LastCatch |-> <<>>, ID |-> "", Listening |-> {}]

\* A datagram of a tracker as Extract returns it.
DHTResponse(cmd, id, dest) == [cmd |-> cmd, id |-> id, dest |-> dest]
NoResponse == DHTResponse("", "", <<>>)

\* What the tracker client did in a step: the operation, the connection and
\* the datagram of ListenDHT, the requests written, and for Initialize the
\* trackers ConnectAndHandshake returned an error for.
Did(op, conn, data, written, failed) ==
    [op |-> op, conn |-> conn, data |-> data, sent |-> written,
     failed |-> failed]
NoDht == Did("", 0, NoResponse, <<>>, {})

\* What a step of the tracker client leaves alone.
DhtFrame ==
    /\ lastOp' = [op |-> "", id |-> "", ip |-> "", mac |-> "", exists |-> FALSE]
    /\ lastRun' = [id |-> "", handler |-> "", nodes |-> 0, err |-> FALSE]
    /\ UNCHANGED nonDhtVars

\* The FailedRouters and the Connection of Initialize after the routers of
\* list, those of failing having failed.
RECURSIVE Connect(_, _, _)
Connect(client, list, failing) ==
    IF list = <<>> THEN client
    ELSE IF Head(list) \in failing
    THEN Connect([client EXCEPT !.FailedRouters[1] = Head(list)],
                 Tail(list), failing)
    ELSE Connect([client EXCEPT
                     !.Connection = Append(@, Head(list)),
                     !.Listening = @ \cup {Len(client.Connection) + 1}],
                 Tail(list), failing)

\* The conn requests of ConnectAndHandshake to the routers of list that did
\* not fail.
RECURSIVE Handshakes(_, _)
Handshakes(list, failing) ==
    IF list = <<>> THEN <<>>
    ELSE IF Head(list) \in failing THEN Handshakes(Tail(list), failing)
    ELSE <<Written(Head(list), [cmd |-> "conn", id |-> "0", hash |-> "0"])>>
         \o Handshakes(Tail(list), failing)

\* DHTClient.Initialize(config, ips): config is the client with its Routers
\* and its NetworkHash; failing are the trackers whose resolve, dial or
\* handshake fails.
Initialize(routers, hash, failing) ==
    /\ dht = DHTClientConfig
    /\ LET config == [DHTClientConfig EXCEPT !.Routers = routers,
                                             !.NetworkHash = hash]
           list == Split(config.Routers)
           made == [config EXCEPT !.FailedRouters = [k \in Indices(list) |-> <<>>]]
       IN /\ dht' = Connect(made, list, failing)
          /\ lastDht' = Did("Initialize", 0, NoResponse,
                            Handshakes(list, failing),
                            {list[k] : k \in Indices(list)} \cap failing)
    /\ DhtFrame

\* The find a ListenDHT goroutine writes on a conn reply, to every
\* connection of the client.
ConnReplyWritesToAll(client, conn) ==
    [k \in Indices(client.Connection) |->
        Written(client.Connection[k], Compose("find", "", client.NetworkHash))]

\* What a ListenDHT goroutine writes on a conn reply read from conn.
ConnReplyWrites(client, conn) ==
    <<Written(client.Connection[conn], Compose("find", "", client.NetworkHash))>>

\* One round of the loop of ListenDHT(conn): a datagram is read and
\* extracted without error.
ListenDHT(conn, data) ==
    /\ conn \in dht.Listening
    /\ IF data.cmd = "conn"
       THEN /\ dht' = [dht EXCEPT !.ID = data.id]
            /\ lastDht' = Did("ListenDHT", conn, data,
                              ConnReplyWrites(dht, conn), {})
       ELSE IF data.cmd = "ping"
       THEN /\ UNCHANGED dht
            /\ lastDht' = Did("ListenDHT", conn, data,
                              <<Written(dht.Connection[conn],
                                        Compose("ping", "", ""))>>, {})
       ELSE IF data.cmd = "find" /\ data.dest # <<>>
       THEN /\ dht' = [dht EXCEPT !.LastCatch = UpdateLastCatch(@, data.dest)]
            /\ lastDht' = Did("ListenDHT", conn, data, <<>>, {})
       ELSE /\ UNCHANGED dht
            /\ lastDht' = Did("ListenDHT", conn, data, <<>>, {})
    /\ DhtFrame

\* DHTClient.UpdatePeers
UpdatePeers ==
    /\ dht # DHTClientConfig
    /\ lastDht' = Did("UpdatePeers", 0, NoResponse,
                      [k \in Indices(dht.Connection) |->
                          Written(dht.Connection[k],
                                  Compose("find", "", dht.NetworkHash))], {})
    /\ UNCHANGED dht
    /\ DhtFrame

\* The datagrams of the trackers, per command.
DhtConn ==
    \E conn \in 1..MaxRouters, id \in DhtIds :
        ListenDHT(conn, DHTResponse("conn", id, <<>>))
DhtPing ==
    \E conn \in 1..MaxRouters : ListenDHT(conn, DHTResponse("ping", "0", <<>>))
DhtFind(dests) ==
    \E conn \in 1..MaxRouters, dest \in dests :
        /\ Len(UpdateLastCatch(dht.LastCatch, dest)) <= MaxCatch
        /\ ListenDHT(conn, DHTResponse("find", "0", dest))
DhtOther ==
    \E conn \in 1..MaxRouters, cmd \in {"regcp", "node"} :
        ListenDHT(conn, DHTResponse(cmd, "0", <<>>))

\* ------------------------------------------------------------- peer table

\* The ids of the peers of a client, the IPs and the hardware addresses of
\* their interfaces. Nil is the nil net.IP and the nil net.HardwareAddr.
PeerIds == {"p1", "p2"}
OverlayIPs == {"10.10.0.1", "10.10.0.2"}
OverlayMacs == {"06:00:00:00:00:01", "06:00:00:00:00:02"}
Nil == "nil"

\* net.IP.String() and net.HardwareAddr.String()
IPString(ip) == IF ip = Nil THEN "<nil>" ELSE ip
HWString(mac) == IF mac = Nil THEN "" ELSE mac

\* The ip and the mac PeerList.operate passes to updateTables.
UpdateIP(peer) == IF peer.PeerLocalIP # Nil THEN IPString(peer.PeerLocalIP) ELSE ""
UpdateMac(peer) == IF peer.PeerHW # Nil THEN HWString(peer.PeerHW) ELSE ""

\* PeerList.updateTables, for one of the two tables.
updateTables(table, id, key) ==
    IF key # "" THEN (key :> id) @@ table ELSE table

\* deleteTables leaving the table as it is.
deleteTablesNot(table, key) == table

\* PeerList.deleteTables, for one of the two tables.
deleteTables(table, key) ==
    IF key # "" /\ key \in DOMAIN table
    THEN [k \in DOMAIN table \ {key} |-> table[k]]
    ELSE table

\* What a driver did in a step: the handler that ran or took a round of its
\* loop, for which peer, the state it found and, for stateRequestedIP, the
\* number of node requests the call has sent so far and whether sendNode
\* returned an error.
Ran(id, handler, nodes, err) ==
    [id |-> id, handler |-> handler, nodes |-> nodes, err |-> err]
NoRun == Ran("", "", 0, FALSE)

NoOp == [op |-> "", id |-> "", ip |-> "", mac |-> "", exists |-> FALSE]

\* PeerList.Update: operate(PeersUpdate, id, peer)
Update(id, peer) ==
    /\ peers' = (id :> peer) @@ peers
    /\ tableIPID' = updateTables(tableIPID, id, UpdateIP(peer))
    /\ tableMacID' = updateTables(tableMacID, id, UpdateMac(peer))
    /\ lastOp' = [op |-> "update", id |-> id, ip |-> UpdateIP(peer),
                  mac |-> UpdateMac(peer), exists |-> id \in DOMAIN peers]
    /\ lastRun' = NoRun
    /\ lastDht' = NoDht
    /\ UNCHANGED <<drivers, HolePunching, senders, nonClientVars>>

\* PeerList.Delete: operate(PeersDelete, id, nil)
Delete(id) ==
    /\ IF id \notin DOMAIN peers
       THEN /\ UNCHANGED <<peers, tableIPID, tableMacID>>
            /\ lastOp' = [op |-> "delete", id |-> id, ip |-> "", mac |-> "",
                          exists |-> FALSE]
       ELSE /\ tableIPID' = deleteTables(tableIPID, IPString(peers[id].PeerLocalIP))
            /\ tableMacID' = deleteTables(tableMacID, HWString(peers[id].PeerHW))
            /\ peers' = [k \in DOMAIN peers \ {id} |-> peers[k]]
            /\ lastOp' = [op |-> "delete", id |-> id,
                          ip |-> IPString(peers[id].PeerLocalIP),
                          mac |-> HWString(peers[id].PeerHW), exists |-> TRUE]
    /\ lastRun' = NoRun
    /\ lastDht' = NoDht
    /\ UNCHANGED <<drivers, HolePunching, senders, nonClientVars>>

\* The states of a peer: those the handlers of the path from Init go
\* through, then the legacy ones.
PeerStateInit == "Init"
PeerStateRequestedIP == "RequestedIP"
PeerStateRequestingProxy == "RequestingProxy"
PeerStateWaitingForProxy == "WaitingForProxy"
PeerStateConnecting == "Connecting"
PeerStateRouting == "Routing"
PeerStateConnected == "Connected"
PeerStateDisconnect == "Disconnect"
PeerStateStop == "Stop"
PeerStateConnectingDirectlyWait == "ConnectingDirectlyWait"
PeerStateConnectingDirectly == "ConnectingDirectly"
PeerStateConnectingInternetWait == "ConnectingInternetWait"
PeerStateConnectingInternet == "ConnectingInternet"
PeerStateHandshaking == "Handshaking"
PeerStateHandshakingFailed == "HandshakingFailed"
PeerStateWaitingForwarder == "WaitingForwarder"
PeerStateHandshakingForwarder == "HandshakingForwarder"
PeerStateWaitingToConnect == "WaitingToConnect"

\* The states in which a peer waits for the other side, and the state each
\* of them leads to.
WaitStates == {PeerStateConnectingDirectlyWait, PeerStateConnectingInternetWait}
Advanced(w) ==
    IF w = PeerStateConnectingDirectlyWait
    THEN PeerStateConnectingDirectly
    ELSE PeerStateConnectingInternet

\* A NetworkPeer as the callers of Update make it: a new peer is in Init,
\* knows no address and has no endpoint.
NewPeer(id, ip, mac) ==
    [ID |-> id, PeerLocalIP |-> ip, PeerHW |-> mac,
     State |-> PeerStateInit, RemoteState |-> PeerStateInit,
     KnownIPs |-> <<>>, Proxies |-> <<>>, Endpoints |-> <<>>,
     Endpoint |-> NilAddr, PeerAddr |-> NilAddr,
     ConnectionAttempts |-> 0, Running |-> FALSE,
     TestPacketReceived |-> FALSE, Forwarder |-> NilAddr]

PeerValues(id) ==
    {NewPeer(id, ip, mac) : ip \in OverlayIPs \cup {Nil},
                            mac \in OverlayMacs \cup {Nil}}

\* ------------------------------------------------------------ peer driver

\* The ids of the peers that get a driver, the addresses a peer is reached
\* at, and the states the other side reports.
DriverIds == {"p1"}
PrivateAddr == <<"192.168.1.5", 4000>>
PublicAddr == <<"8.8.4.4", 4000>>
EndpointAddrs == {PrivateAddr, PublicAddr}
MaxEndpoints == Cardinality(EndpointAddrs)
RemoteStates == {PeerStateInit, PeerStateConnected, PeerStateDisconnect,
                 PeerStateStop}

\* ConnectionAttempts is a uint8.
Uint8(i) == i % 256

\* The cap of stateInit on ConnectionAttempts and of stateRequestedIP on its
\* attempts.
MaxConnectionAttempts == 5
MaxNodeAttempts == 5

\* The bound of the loop of the goroutine of stateConnecting on round.
IntroRounds == 10

\* isPrivateIP
isPrivateIP(addr) == addr = PrivateAddr

\* A PeerEndpoint; LastContact is "recent" while time.Since(ep.LastContact)
\* is at most 10 ms.
PeerEndpoint(addr, contact) == [Addr |-> addr, LastContact |-> contact]

\* What a goroutine running Run holds: the handler it is in ("" between two
\* calls), the attempts of stateRequestedIP, the index i of the range
\* statement of stateConnectingInternet and whether holePunch's punchStarted
\* is more than 10 s ago (late). passes is a history field,
\* not a variable of the code: the number of calls of stateInit this
\* goroutine made that left the peer in RequestedIP, counted up to
\* MaxConnectionAttempts + 1 and kept once it is that.
NewDriver == [pc |-> "", attempts |-> 0, passes |-> 0, i |-> 0, late |-> FALSE]

\* The driver after the handler it was in has returned.
Returned(driver) == [driver EXCEPT !.pc = "", !.attempts = 0]

\* The driver after a call of stateInit that left the peer in state.
Passed(driver, state) ==
    IF state = PeerStateRequestedIP
    THEN [driver EXCEPT !.passes = Min({@ + 1, MaxConnectionAttempts + 1})]
    ELSE driver

\* NetworkPeer.stateInit
stateInit(np) ==
    LET attempts == Uint8(np.ConnectionAttempts + 1)
    IN [np EXCEPT !.KnownIPs = <<>>, !.Endpoint = NilAddr, !.PeerAddr = NilAddr,
                  !.PeerHW = Nil, !.PeerLocalIP = Nil,
                  !.TestPacketReceived = FALSE,
                  !.ConnectionAttempts = attempts,
                  !.State = IF attempts > MaxConnectionAttempts
                            THEN PeerStateDisconnect
                            ELSE PeerStateRequestedIP]

\* The three lists of stateRouting.
IsRecent(ep) == ep.LastContact = "recent"
IsProxyEndpoint(np, ep) == \E k \in Indices(np.Proxies) : np.Proxies[k] = ep.Addr
RoutingProxies(np) ==
    SelectSeq(np.Endpoints, LAMBDA ep : IsRecent(ep) /\ IsProxyEndpoint(np, ep))
RoutingLocals(np) ==
    SelectSeq(np.Endpoints, LAMBDA ep : /\ IsRecent(ep)
                                        /\ ~IsProxyEndpoint(np, ep)
                                        /\ isPrivateIP(ep.Addr))
RoutingInternet(np) ==
    SelectSeq(np.Endpoints, LAMBDA ep : /\ IsRecent(ep)
                                        /\ ~IsProxyEndpoint(np, ep)
                                        /\ ~isPrivateIP(ep.Addr))

\* stateRouting appending the internet list before the local one.
stateRoutingInternetFirst(np) ==
    LET endpoints == RoutingInternet(np) \o RoutingLocals(np) \o RoutingProxies(np)
    IN IF Len(endpoints) > 0
       THEN [np EXCEPT !.Endpoints = endpoints,
                       !.Endpoint = endpoints[1].Addr,
                       !.State = PeerStateConnected]
       ELSE [np EXCEPT !.Endpoints = endpoints,
                       !.State = PeerStateDisconnect]

\* NetworkPeer.stateRouting
stateRouting(np) ==
    LET endpoints == RoutingLocals(np) \o RoutingInternet(np) \o RoutingProxies(np)
    IN IF Len(endpoints) > 0
       THEN [np EXCEPT !.Endpoints = endpoints,
                       !.Endpoint = endpoints[1].Addr,
                       !.State = PeerStateConnected]
       ELSE [np EXCEPT !.Endpoints = endpoints,
                       !.State = PeerStateDisconnect]

\* stateConnected testing the MAC and the IP before RemoteState.
stateConnectedAddressFirst(np) ==
    IF np.PeerHW = Nil \/ np.PeerLocalIP = Nil
    THEN [np EXCEPT !.State = PeerStateDisconnect]
    ELSE IF np.RemoteState = PeerStateDisconnect
    THEN [np EXCEPT !.State = PeerStateDisconnect]
    ELSE IF np.RemoteState = PeerStateStop
    THEN [np EXCEPT !.State = PeerStateDisconnect]
    ELSE IF np.RemoteState = PeerStateInit
    THEN [np EXCEPT !.State = PeerStateInit]
    ELSE [np EXCEPT !.State = PeerStateRouting]

\* NetworkPeer.stateConnected
stateConnected(np) ==
    IF np.RemoteState = PeerStateDisconnect
    THEN [np EXCEPT !.State = PeerStateDisconnect]
    ELSE IF np.RemoteState = PeerStateStop
    THEN [np EXCEPT !.State = PeerStateDisconnect]
    ELSE IF np.RemoteState = PeerStateInit
    THEN [np EXCEPT !.State = PeerStateInit]
    ELSE IF np.PeerHW = Nil \/ np.PeerLocalIP = Nil
    THEN [np EXCEPT !.State = PeerStateDisconnect]
    ELSE [np EXCEPT !.State = PeerStateRouting]

\* The handlers that are one assignment of the state.
stateRequestingProxy(np) == [np EXCEPT !.State = PeerStateWaitingForProxy]

stateWaitingForProxyToConnect(np) ==
    [np EXCEPT !.State = PeerStateWaitingToConnect]
stateWaitingForProxy(np) == [np EXCEPT !.State = PeerStateConnecting]

stateConnecting(np) == [np EXCEPT !.State = PeerStateRouting]
stateDisconnect(np) == [np EXCEPT !.State = PeerStateStop]

\* The states whose handler is called and returns in one step: the handlers
\* that neither wait nor start a goroutine.
CallStates ==
    {PeerStateInit, PeerStateRequestingProxy,
     PeerStateRouting, PeerStateConnected, PeerStateDisconnect}

\* callback(ptpc) for the handler of the peer's state.
Callback(np) ==
    CASE np.State = PeerStateInit -> stateInit(np)
      [] np.State = PeerStateRequestingProxy -> stateRequestingProxy(np)
      [] np.State = PeerStateRouting -> stateRouting(np)
      [] np.State = PeerStateConnected -> stateConnected(np)
      [] np.State = PeerStateDisconnect -> stateDisconnect(np)

\* time.Sleep(time.Millisecond * 500) of Run after a handler has returned:
\* no endpoint has been heard from within the last 10 ms any more.
Sleep(np) ==
    [np EXCEPT !.Endpoints =
         [k \in Indices(@) |-> [@[k] EXCEPT !.LastContact = "old"]]]

\* What a step of stateConnecting, or of a goroutine it has started, leaves
\* alone.
SenderFrame ==
    /\ lastOp' = NoOp
    /\ lastDht' = NoDht
    /\ UNCHANGED <<tableIPID, tableMacID, nonClientVars>>

\* What a step of a driver inside holePunch leaves alone.
PunchFrame ==
    /\ SenderFrame
    /\ UNCHANGED senders

\* What a step of a driver outside holePunch leaves alone.
DriverFrame ==
    /\ PunchFrame
    /\ UNCHANGED HolePunching

\* What a step of the receive task, or of a caller of the table, leaves
\* alone.
ReceiveFrame ==
    /\ lastRun' = NoRun
    /\ DriverFrame

\* PeerList.RunPeer: go l.peers[id].Run(p), and the two assignments Run
\* starts with.
RunPeer(id) ==
    /\ id \in DOMAIN peers
    /\ Len(drivers[id]) < MaxDrivers
    /\ drivers' = [drivers EXCEPT ![id] = Append(@, NewDriver)]
    /\ peers' = [peers EXCEPT ![id].Running = TRUE,
                              ![id].ConnectionAttempts = 0]
    /\ lastRun' = Ran(id, "Run", 0, FALSE)
    /\ DriverFrame

\* The loop of Run finds the state Stop and the goroutine ends.
DriverExit(id, k) ==
    /\ k \in Indices(drivers[id])
    /\ drivers[id][k].pc = ""
    /\ peers[id].State = PeerStateStop
    /\ drivers' = [drivers EXCEPT ![id] = RemoveAt(@, k)]
    /\ UNCHANGED peers
    /\ lastRun' = Ran(id, "exit", 0, FALSE)
    /\ DriverFrame

\* One round of the loop of Run: the client has its id, the handler of the
\* state is called and returns, and Run sleeps. Without the id Run sleeps
\* and tests again.
DriverCall(id, k) ==
    /\ k \in Indices(drivers[id])
    /\ drivers[id][k].pc = ""
    /\ dht.ID # ""
    /\ peers[id].State \in CallStates
    /\ peers' = [peers EXCEPT ![id] = Sleep(Callback(@))]
    /\ drivers' = [drivers EXCEPT ![id][k] =
                       IF peers[id].State = PeerStateInit
                       THEN Passed(@, Callback(peers[id]).State)
                       ELSE @]
    /\ lastRun' = Ran(id, peers[id].State, 0, FALSE)
    /\ DriverFrame

\* The goroutine stateConnecting starts: round := 0. sent is a history
\* field, not a variable of the code: the number of passes of the outer loop
\* the goroutine has made, counted up to IntroRounds + 1.
NewSender == [round |-> 0, sent |-> 0]

\* go func() of stateConnecting. The goroutines of a peer are followed up to
\* MaxSenders of them; one started beyond that is left out of the state.
Spawn(list) == IF Len(list) < MaxSenders THEN Append(list, NewSender) ELSE list

\* One test of round < 10 by a goroutine of stateConnecting: while it holds
\* an INTRO_REQ is sent to every known address and the goroutine sleeps
\* 20 ms, round being left as it is; once it does not the goroutine ends.
IntroPass(list, j) ==
    IF list[j].round < IntroRounds
    THEN [list EXCEPT ![j].sent = IF @ > IntroRounds THEN @ ELSE @ + 1]
    ELSE RemoveAt(list, j)

\* stateConnecting is called and returns: the goroutine is started and the
\* peer is in Routing; Run sleeps.
ConnectingCall(id, k) ==
    /\ k \in Indices(drivers[id])
    /\ drivers[id][k].pc = ""
    /\ dht.ID # ""
    /\ peers[id].State = PeerStateConnecting
    /\ senders' = [senders EXCEPT ![id] = Spawn(@)]
    /\ peers' = [peers EXCEPT ![id] = Sleep(stateConnecting(@))]
    /\ UNCHANGED <<drivers, HolePunching>>
    /\ lastRun' = Ran(id, PeerStateConnecting, 0, FALSE)
    /\ SenderFrame

\* The j-th goroutine of stateConnecting of a peer tests round < 10.
IntroRound(id, j) ==
    /\ id \in DOMAIN peers
    /\ j \in Indices(senders[id])
    /\ senders' = [senders EXCEPT ![id] = IntroPass(@, j)]
    /\ UNCHANGED <<peers, drivers, HolePunching>>
    /\ lastRun' = Ran(id, "IntroReq",
                      IF senders[id][j].round < IntroRounds
                      THEN Len(peers[id].KnownIPs) ELSE 0, FALSE)
    /\ SenderFrame

\* stateRequestedIP is called: requestSentAt := time.Now(), attempts := 0.
RequestedIPEnter(id, k) ==
    /\ k \in Indices(drivers[id])
    /\ drivers[id][k].pc = ""
    /\ dht.ID # ""
    /\ peers[id].State = PeerStateRequestedIP
    /\ drivers' = [drivers EXCEPT ![id][k].pc = "stateRequestedIP",
                                  ![id][k].attempts = 0]
    /\ UNCHANGED peers
    /\ lastRun' = Ran(id, PeerStateRequestedIP, 0, FALSE)
    /\ DriverFrame

\* A round of the loop of stateRequestedIP before updateInterval has passed.
RequestedIPPoll(id, k) ==
    /\ k \in Indices(drivers[id])
    /\ drivers[id][k].pc = "stateRequestedIP"
    /\ Len(peers[id].KnownIPs) > 0
    /\ peers' = [peers EXCEPT ![id] =
                            Sleep([@ EXCEPT !.State = PeerStateRequestingProxy])]
    /\ drivers' = [drivers EXCEPT ![id][k] = Returned(@)]
    /\ lastRun' = Ran(id, PeerStateRequestedIP, drivers[id][k].attempts, FALSE)
    /\ DriverFrame

\* A round of the loop of stateRequestedIP after updateInterval has passed:
\* the node request is sent again, sent telling whether sendNode returned no
\* error.
RequestedIPTick(id, k, sentOk) ==
    /\ k \in Indices(drivers[id])
    /\ drivers[id][k].pc = "stateRequestedIP"
    /\ LET attempts == drivers[id][k].attempts + 1
       IN IF ~sentOk \/ attempts > MaxNodeAttempts
          THEN /\ peers' = [peers EXCEPT ![id] =
                            Sleep([@ EXCEPT !.State = PeerStateDisconnect])]
               /\ drivers' = [drivers EXCEPT ![id][k] = Returned(@)]
          ELSE IF Len(peers[id].KnownIPs) > 0
          THEN /\ peers' = [peers EXCEPT ![id] =
                            Sleep([@ EXCEPT !.State = PeerStateRequestingProxy])]
               /\ drivers' = [drivers EXCEPT ![id][k] = Returned(@)]
          ELSE /\ drivers' = [drivers EXCEPT ![id][k].attempts = attempts]
               /\ UNCHANGED peers
    /\ lastRun' = Ran(id, PeerStateRequestedIP,
                      drivers[id][k].attempts + 1, ~sentOk)
    /\ DriverFrame

\* stateWaitingForProxy is called: started := time.Now().
WaitingForProxyEnter(id, k) ==
    /\ k \in Indices(drivers[id])
    /\ drivers[id][k].pc = ""
    /\ dht.ID # ""
    /\ peers[id].State = PeerStateWaitingForProxy
    /\ drivers' = [drivers EXCEPT ![id][k].pc = "stateWaitingForProxy"]
    /\ UNCHANGED peers
    /\ lastRun' = Ran(id, PeerStateWaitingForProxy, 0, FALSE)
    /\ DriverFrame

\* The 4000 ms of stateWaitingForProxy have passed: it sets the state and
\* returns, and Run sleeps.
WaitingForProxyReturn(id, k) ==
    /\ k \in Indices(drivers[id])
    /\ drivers[id][k].pc = "stateWaitingForProxy"
    /\ peers' = [peers EXCEPT ![id] = Sleep(stateWaitingForProxy(@))]
    /\ drivers' = [drivers EXCEPT ![id][k] = Returned(@)]
    /\ lastRun' = Ran(id, PeerStateWaitingForProxy, 0, FALSE)
    /\ DriverFrame

\* The client shuts down, or drops the peer: the state of the peer is set
\* to Stop, whatever its driver is doing.
StopPeer(id) ==
    /\ id \in DOMAIN peers
    /\ peers[id].State # PeerStateStop
    /\ peers' = [peers EXCEPT ![id].State = PeerStateStop]
    /\ UNCHANGED drivers
    /\ ReceiveFrame

\* The receive task of the client, on what the tracker and the peer send.
\* A node reply brings the addresses of the peer.
RecvNode(id, addr) ==
    /\ id \in DOMAIN peers
    /\ peers[id].KnownIPs = <<>>
    /\ peers' = [peers EXCEPT ![id].KnownIPs = <<addr>>]
    /\ UNCHANGED drivers
    /\ ReceiveFrame

\* The peer's introduction arrives from addr: its IP and MAC are stored,
\* addr becomes an endpoint that has just been heard from, and the table is
\* updated.
RecvIntro(id, ip, mac, addr) ==
    /\ id \in DOMAIN peers
    /\ peers[id].PeerHW = Nil
    /\ \A k \in Indices(peers[id].Endpoints) : peers[id].Endpoints[k].Addr # addr
    /\ Update(id, [peers[id] EXCEPT
                       !.PeerLocalIP = ip, !.PeerHW = mac,
                       !.Endpoints = Append(@, PeerEndpoint(addr, "recent"))])

\* A ping of the peer arrives from an endpoint: its LastContact is now.
RecvXpeerPing(id, k) ==
    /\ id \in DOMAIN peers
    /\ k \in Indices(peers[id].Endpoints)
    /\ peers[id].Endpoints[k].LastContact # "recent"
    /\ peers' = [peers EXCEPT ![id].Endpoints[k].LastContact = "recent"]
    /\ UNCHANGED drivers
    /\ ReceiveFrame

\* The state the other side reports arrives. stateConnected and the wait
\* handlers alone read it, so it arrives while the peer is in their
\* states.
RecvState(id, state) ==
    /\ id \in DOMAIN peers
    /\ peers[id].State \in {PeerStateConnected} \union WaitStates
    /\ peers[id].RemoteState # state
    /\ peers' = [peers EXCEPT ![id].RemoteState = state]
    /\ UNCHANGED drivers
    /\ ReceiveFrame

\* 10 ms pass without a datagram of the peer.
TimePasses(id) ==
    /\ id \in DOMAIN peers
    /\ \E k \in Indices(peers[id].Endpoints) :
           peers[id].Endpoints[k].LastContact = "recent"
    /\ peers' = [peers EXCEPT ![id] = Sleep(@)]
    /\ UNCHANGED drivers
    /\ ReceiveFrame

\* A peer found by the tracker client is put in the table.
AddPeer(id) ==
    /\ id \notin DOMAIN peers
    /\ Update(id, NewPeer(id, Nil, Nil))

\* The peers a driver can find when it calls stateRouting or
\* stateConnected: the endpoints are any list of different addresses, each
\* heard from within the last 10 ms or not, the forwarder's address is a
\* proxy of the peer or not, and the MAC, the IP and the state the other side
\* reported are any.
ForwarderAddr == <<"8.8.8.8", 6000>>
RoutingAddrs == EndpointAddrs \cup {ForwarderAddr}
EndpointValues ==
    {PeerEndpoint(addr, contact) : addr \in RoutingAddrs,
                                   contact \in {"recent", "old"}}
EndpointLists ==
    {list \in UNION {[1..n -> EndpointValues] : n \in 0..Cardinality(RoutingAddrs)} :
        \A i, j \in Indices(list) : list[i].Addr = list[j].Addr => i = j}
HandlerInputs ==
    {[NewPeer("p1", ip, mac) EXCEPT !.State = state, !.RemoteState = remote,
                                    !.Endpoints = list, !.Proxies = proxies,
                                    !.KnownIPs = <<PublicAddr>>,
                                    !.Running = TRUE] :
        ip \in {Nil, "10.10.0.1"}, mac \in {Nil, "06:00:00:00:00:01"},
        state \in {PeerStateRouting, PeerStateConnected},
        remote \in RemoteStates, list \in EndpointLists,
        proxies \in {<<>>, <<ForwarderAddr>>}}

\* ---------------------------------------------------------- hole punching

\* The length holePunch asks of the id of the client. The ids of DhtIds
\* stand for UUIDs of that length, ShortId for an id of another length.
UuidLength == 36
ShortId == "u"
IdLength(id) == IF id = "" THEN 0 ELSE IF id = ShortId THEN 1 ELSE UuidLength

\* NetworkPeer.SetPeerAddr: the first known address becomes PeerAddr.
SetPeerAddr(np) ==
    IF Len(np.KnownIPs) = 0 THEN np ELSE [np EXCEPT !.PeerAddr = np.KnownIPs[1]]

\* An address whose IP is unset, and endpoint.IP == nil.
NoIPAddr == <<"", 4000>>
HasIP(addr) == addr[1] # ""

\* sync.Mutex.Lock returns once the mutex is unlocked.
LockNeverWaits(mutex) == TRUE
CanLock(mutex) == mutex = FALSE

\* stateConnectingInternet from the i-th known address on, up to the Lock of
\* holePunch or to its return: private addresses are skipped, the next one
\* becomes the endpoint, and holePunch stops the peer and returns false at
\* once when the client's id has not the length of a UUID. Past the last
\* address the peer waits for a forwarder. The result is the peer, the
\* place the goroutine is at and the index of the range statement.
RECURSIVE rangeKnownIPs(_, _, _)
rangeKnownIPs(np, i, id) ==
    IF i > Len(np.KnownIPs)
    THEN [peer |-> [SetPeerAddr(np) EXCEPT !.State = PeerStateWaitingForwarder],
          pc |-> "", i |-> 0]
    ELSE IF isPrivateIP(np.KnownIPs[i])
    THEN rangeKnownIPs(np, i + 1, id)
    ELSE LET dialed == [np EXCEPT !.Endpoint = np.KnownIPs[i]]
         IN IF IdLength(id) # UuidLength
            THEN rangeKnownIPs([dialed EXCEPT !.State = PeerStateStop], i + 1, id)
            ELSE [peer |-> dialed, pc |-> "Lock", i |-> i]

\* The goroutine k of the peer goes on in stateConnectingInternet from the
\* i-th known address; Run sleeps when the handler has returned.
ConnectingInternetFrom(id, k, i) ==
    LET r == rangeKnownIPs(peers[id], i, dht.ID)
    IN /\ peers' = [peers EXCEPT ![id] = IF r.pc = "" THEN Sleep(r.peer)
                                                      ELSE r.peer]
       /\ drivers' = [drivers EXCEPT ![id][k].pc = r.pc, ![id][k].i = r.i]
       /\ lastRun' = Ran(id, PeerStateConnectingInternet, r.i, r.pc = "")

\* One round of the loop of stateConnectingDirectlyWait (w the state
\* ConnectingDirectlyWait) and of stateConnectingInternetWait: the handler
\* returns when the peer has left w; it sets the state w leads to when the
\* other side reports w or that state, and also, returning an error, when a
\* minute has passed (late); otherwise it sleeps 100 ms. The result is the
\* peer, whether the handler has returned and whether with an error.
waitRoundDisconnects(np, w, late) ==
    IF np.State # w
    THEN [peer |-> np, returned |-> TRUE, err |-> FALSE]
    ELSE IF np.RemoteState \in {w, Advanced(w)}
    THEN [peer |-> [np EXCEPT !.State = Advanced(w)],
          returned |-> TRUE, err |-> FALSE]
    ELSE IF late
    THEN [peer |-> [np EXCEPT !.State = PeerStateDisconnect],
          returned |-> TRUE, err |-> TRUE]
    ELSE [peer |-> np, returned |-> FALSE, err |-> FALSE]
waitRound(np, w, late) ==
    IF np.State # w
    THEN [peer |-> np, returned |-> TRUE, err |-> FALSE]
    ELSE IF np.RemoteState \in {w, Advanced(w)}
    THEN [peer |-> [np EXCEPT !.State = Advanced(w)],
          returned |-> TRUE, err |-> FALSE]
    ELSE IF late
    THEN [peer |-> [np EXCEPT !.State = Advanced(w)],
          returned |-> TRUE, err |-> TRUE]
    ELSE [peer |-> np, returned |-> FALSE, err |-> FALSE]

\* A wait handler is called: started := time.Now(). The goroutine is in the
\* handler of the state it has found.
WaitEnter(id, k) ==
    /\ k \in Indices(drivers[id])
    /\ drivers[id][k].pc = ""
    /\ dht.ID # ""
    /\ peers[id].State \in WaitStates
    /\ drivers' = [drivers EXCEPT ![id][k].pc = peers[id].State,
                                  ![id][k].late = FALSE]
    /\ UNCHANGED peers
    /\ lastRun' = Ran(id, "call", k, FALSE)
    /\ DriverFrame

\* A round of the loop of a wait handler by the k-th goroutine, which the
\* event names; Run sleeps when the handler has returned.
WaitRound(id, k) ==
    /\ k \in Indices(drivers[id])
    /\ drivers[id][k].pc \in WaitStates
    /\ LET r == waitRound(peers[id], drivers[id][k].pc, drivers[id][k].late)
       IN /\ peers' = [peers EXCEPT ![id] = IF r.returned THEN Sleep(r.peer)
                                                          ELSE r.peer]
          /\ drivers' = [drivers EXCEPT ![id][k] =
                             IF r.returned
                             THEN [@ EXCEPT !.pc = "", !.late = FALSE]
                             ELSE @]
          /\ lastRun' = Ran(id, drivers[id][k].pc, k, r.err)
    /\ DriverFrame

\* A minute has passed since started := time.Now().
WaitMinutePasses(id, k) ==
    /\ k \in Indices(drivers[id])
    /\ drivers[id][k].pc \in WaitStates
    /\ ~drivers[id][k].late
    /\ drivers' = [drivers EXCEPT ![id][k].late = TRUE]
    /\ UNCHANGED peers
    /\ ReceiveFrame

\* stateConnectingInternet is called, up to the first Lock of holePunch.
ConnectingInternetEnter(id, k) ==
    /\ k \in Indices(drivers[id])
    /\ drivers[id][k].pc = ""
    /\ dht.ID # ""
    /\ peers[id].State = PeerStateConnectingInternet
    /\ ConnectingInternetFrom(id, k, 1)
    /\ DriverFrame

\* ptpc.HolePunching.Lock() of holePunch returns.
HolePunchLock(id, k) ==
    /\ k \in Indices(drivers[id])
    /\ drivers[id][k].pc = "Lock"
    /\ CanLock(HolePunching)
    /\ HolePunching' = TRUE
    /\ drivers' = [drivers EXCEPT ![id][k].pc = "holePunch",
                                  ![id][k].late = FALSE]
    /\ UNCHANGED peers
    /\ lastRun' = Ran(id, "Lock", drivers[id][k].i, FALSE)
    /\ PunchFrame

\* The endpoint holePunch has been called with by the k-th goroutine.
PunchEndpoint(id, k) == peers[id].KnownIPs[drivers[id][k].i]

\* 10 s have passed since punchStarted := time.Now().
PunchTimePasses(id, k) ==
    /\ k \in Indices(drivers[id])
    /\ drivers[id][k].pc = "holePunch"
    /\ ~drivers[id][k].late
    /\ drivers' = [drivers EXCEPT ![id][k].late = TRUE]
    /\ UNCHANGED peers
    /\ ReceiveFrame

\* A round of the send loop of holePunch: it is left when the peer is in
\* neither connecting state, with true when a test packet has been received,
\* when the send fails, and when 10 s have passed; otherwise a test message
\* is sent and the loop sleeps 200 ms. With an endpoint whose IP is nil the
\* round sleeps 200 ms and continues before the send and the test of the
\* time.
HolePunchSend(id, k) ==
    /\ k \in Indices(drivers[id])
    /\ drivers[id][k].pc = "holePunch"
    /\ peers[id].State \in {PeerStateConnectingDirectly, PeerStateConnectingInternet}
    /\ ~peers[id].TestPacketReceived
    /\ HasIP(PunchEndpoint(id, k)) => ~drivers[id][k].late
    /\ UNCHANGED <<peers, drivers, HolePunching>>
    /\ lastRun' = Ran(id, "holePunch", drivers[id][k].i, FALSE)
    /\ PunchFrame

\* holePunch returns true, the deferred Unlock runs and
\* stateConnectingInternet ends with the peer in Handshaking.
HolePunchSuccess(id, k) ==
    /\ k \in Indices(drivers[id])
    /\ drivers[id][k].pc = "holePunch"
    /\ peers[id].State \in {PeerStateConnectingDirectly, PeerStateConnectingInternet}
    /\ peers[id].TestPacketReceived
    /\ HolePunching' = FALSE
    /\ peers' = [peers EXCEPT
                     ![id] = Sleep([@ EXCEPT !.TestPacketReceived = FALSE,
                                             !.PeerAddr = peers[id].Endpoint,
                                             !.State = PeerStateHandshaking])]
    /\ drivers' = [drivers EXCEPT ![id][k].pc = "", ![id][k].i = 0]
    /\ lastRun' = Ran(id, PeerStateConnectingInternet, drivers[id][k].i, FALSE)
    /\ PunchFrame

\* holePunch returns false (the state has changed, the send has failed or
\* 10 s have passed), the deferred Unlock runs and stateConnectingInternet
\* goes on with the next address.
HolePunchFail(id, k) ==
    /\ k \in Indices(drivers[id])
    /\ drivers[id][k].pc = "holePunch"
    /\ ~(/\ peers[id].State \in {PeerStateConnectingDirectly,
                                 PeerStateConnectingInternet}
         /\ peers[id].TestPacketReceived)
    /\ \/ peers[id].State \notin {PeerStateConnectingDirectly,
                                   PeerStateConnectingInternet}
       \/ HasIP(PunchEndpoint(id, k))
    /\ HolePunching' = FALSE
    /\ ConnectingInternetFrom(id, k, drivers[id][k].i + 1)
    /\ PunchFrame

\* The receive task has a test packet of the peer.
RecvTest(id) ==
    /\ id \in DOMAIN peers
    /\ ~peers[id].TestPacketReceived
    /\ peers' = [peers EXCEPT ![id].TestPacketReceived = TRUE]
    /\ UNCHANGED drivers
    /\ ReceiveFrame

\* ------------------------------------------------ legacy forwarder path

\* stateWaitingForwarder: a forwarder cached for the peer (cached, NilAddr
\* when there is none) becomes its forwarder and its endpoint; without one
\* a proxy is requested and the handler waits until the peer has proxies,
\* or gives up after WaitProxyTimeout.
stateWaitingForwarder(np, cached) ==
    IF cached # NilAddr
    THEN [np EXCEPT !.Forwarder = cached, !.Endpoint = cached,
                    !.State = PeerStateHandshakingForwarder]
    ELSE IF Len(np.Proxies) = 0
    THEN [np EXCEPT !.State = PeerStateDisconnect]
    ELSE [np EXCEPT !.State = PeerStateHandshakingForwarder]

\* stateHandshakingForwarder when no handshake is answered: every proxy in
\* turn is the endpoint for 10 s, then the handshake has failed.
stateHandshakingForwarder(np) ==
    [np EXCEPT !.Endpoint = IF Len(np.Proxies) = 0 THEN @
                            ELSE np.Proxies[Len(np.Proxies)],
               !.State = PeerStateHandshakingFailed]

\* stateHandshakingFailed: with a forwarder set it is dropped and Disconnect
\* is set; then, in both cases, WaitingForwarder is set.
stateHandshakingFailed(np) ==
    [np EXCEPT !.Forwarder = NilAddr, !.State = PeerStateWaitingForwarder]

ForwarderStates ==
    {PeerStateWaitingForwarder, PeerStateHandshakingForwarder,
     PeerStateHandshakingFailed}

\* callback(ptpc) for the handler of a state of the forwarder path.
ForwarderCallback(np, cached) ==
    CASE np.State = PeerStateWaitingForwarder -> stateWaitingForwarder(np, cached)
      [] np.State = PeerStateHandshakingForwarder -> stateHandshakingForwarder(np)
      [] np.State = PeerStateHandshakingFailed -> stateHandshakingFailed(np)

\* One round of the loop of Run for a peer in a state of the forwarder
\* path, no handshake being answered; the handlers that give up return an
\* error.
ForwarderCall(id, k, cached) ==
    /\ k \in Indices(drivers[id])
    /\ drivers[id][k].pc = ""
    /\ dht.ID # ""
    /\ peers[id].State \in ForwarderStates
    /\ peers' = [peers EXCEPT ![id] = Sleep(ForwarderCallback(@, cached))]
    /\ UNCHANGED drivers
    /\ lastRun' = Ran(id, peers[id].State, 0,
                      ForwarderCallback(peers[id], cached).State
                          \in {PeerStateDisconnect, PeerStateHandshakingFailed})
    /\ DriverFrame

\* The cp reply of the tracker delivers a forwarder to the peer that waits
\* for one.
RecvForwarder(id, addr) ==
    /\ id \in DOMAIN peers
    /\ peers[id].State = PeerStateWaitingForwarder
    /\ peers[id].Proxies = <<>>
    /\ peers' = [peers EXCEPT ![id].Proxies = <<addr>>]
    /\ UNCHANGED drivers
    /\ ReceiveFrame

\* --------------------------------------------------------- specifications

\* The tunnel table of a forwarder that has made a tunnel for every id from
\* 1 to MaxId: the frames came from the first address and named the second.
FullTunnels ==
    [id \in 1..MaxId |->
        [Peer1 |-> Ptr(3 * id - 2, <<"10.0.1.1", 4000>>),
         Peer2 |-> Ptr(3 * id, <<"10.0.1.2", 5000>>)]]

Init ==
    /\ NodeList = <<>>
    /\ ControlPeers = <<>>
    /\ pingPc = "sleep"
    /\ removeKeys = <<>>
    /\ sweepI = 1
    /\ sweepN = 0
    /\ dialFails = {}
    /\ stopped = {}
    /\ lastReq = NoReq
    /\ sent = NoSend
    /\ Tunnels = <<>>
    /\ lastMsg = NoMsg
    /\ fwd = NoFwd
    /\ peers = <<>>
    /\ tableIPID = <<>>
    /\ tableMacID = <<>>
    /\ lastOp = NoOp
    /\ drivers = [id \in PeerIds |-> <<>>]
    /\ lastRun = NoRun
    /\ dht = DHTClientConfig
    /\ lastDht = NoDht
    /\ HolePunching = FALSE
    /\ senders = [id \in PeerIds |-> <<>>]

\* The registry: conn and find datagrams of clients.
Next ==
    \/ RecvConn(ClientAddrs, FreshUUID)
    \/ RecvFind(ClientAddrs, FreshUUID)
    \/ RecvOther(ClientAddrs, FreshUUID)

Spec == Init /\ [][Next]_vars

\* The ids of the registry: registrations with a uuid library that may
\* return a value again.
NextId ==
    \/ RecvConn(ClientAddrs, AnyUUID)
    \/ RecvOther(ClientAddrs, AnyUUID)

SpecId == Init /\ [][NextId]_vars

\* Liveness of the registered nodes: ping datagrams and the ping task.
NextPing ==
    \/ RecvPing(PingAddrs, FreshUUID)
    \/ RecvOther(PingAddrs, FreshUUID)
    \/ Ping

SpecPing == Init /\ [][NextPing]_vars

\* The forwarder pool: regcp, cp and badcp datagrams, and what happens to
\* the forwarders and the network.
NextCP ==
    \/ RecvRegCP(CPAddrs, FreshUUID)
    \/ RecvCP(CPAddrs, FreshUUID)
    \/ RecvBadCP(CPAddrs, FreshUUID)
    \/ \E ip \in CPIPs : NetChange(ip)
    \/ \E addr \in CPAddrs : StopCP(addr)

SpecCP == Init /\ [][NextCP]_vars

\* The forwarder, from its start.
NextProxy == RecvProxy \/ RecvData

SpecProxy == Init /\ [][NextProxy]_vars

\* The forwarder, from the state it is in after MaxId tunnels were made.
InitFull ==
    /\ NodeList = <<>>
    /\ ControlPeers = <<>>
    /\ pingPc = "sleep"
    /\ removeKeys = <<>>
    /\ sweepI = 1
    /\ sweepN = 0
    /\ dialFails = {}
    /\ stopped = {}
    /\ lastReq = NoReq
    /\ sent = NoSend
    /\ Tunnels = FullTunnels
    /\ lastMsg = NoMsg
    /\ fwd = NoFwd
    /\ peers = <<>>
    /\ tableIPID = <<>>
    /\ tableMacID = <<>>
    /\ lastOp = NoOp
    /\ drivers = [id \in PeerIds |-> <<>>]
    /\ lastRun = NoRun
    /\ dht = DHTClientConfig
    /\ lastDht = NoDht
    /\ HolePunching = FALSE
    /\ senders = [id \in PeerIds |-> <<>>]

SpecProxyFull == InitFull /\ [][NextProxy]_vars

\* The peer table of a client: Update and Delete as its callers make them.
NextTable ==
    \/ \E id \in PeerIds : \E peer \in PeerValues(id) : Update(id, peer)
    \/ \E id \in PeerIds : Delete(id)

SpecTable == Init /\ [][NextTable]_vars

\* A peer of a client: its drivers, and the receive task writing what the
\* peer and the tracker send.
NextPeer ==
    \/ Initialize(<<"a">>, "net-X", {})
    \/ dht.ID = "" /\ ListenDHT(1, DHTResponse("conn", "u1", <<>>))
    \/ \E id \in DriverIds : dht.Connection # <<>> /\ AddPeer(id)
    \/ \E id \in DriverIds : RunPeer(id)
    \/ \E id \in DriverIds, k \in 1..MaxDrivers : DriverCall(id, k)
    \/ \E id \in DriverIds, k \in 1..MaxDrivers : ConnectingCall(id, k)
    \/ \E id \in DriverIds, k \in 1..MaxDrivers : RequestedIPEnter(id, k)
    \/ \E id \in DriverIds, k \in 1..MaxDrivers : RequestedIPPoll(id, k)
    \/ \E id \in DriverIds, k \in 1..MaxDrivers, sentOk \in BOOLEAN :
           RequestedIPTick(id, k, sentOk)
    \/ \E id \in DriverIds, k \in 1..MaxDrivers : WaitingForProxyEnter(id, k)
    \/ \E id \in DriverIds, k \in 1..MaxDrivers : WaitingForProxyReturn(id, k)
    \/ \E id \in DriverIds, k \in 1..MaxDrivers : DriverExit(id, k)
    \/ \E id \in DriverIds : RecvNode(id, PublicAddr)
    \/ \E id \in DriverIds :
           RecvIntro(id, "10.10.0.1", "06:00:00:00:00:01", PrivateAddr)
    \/ \E id \in DriverIds, k \in 1..MaxEndpoints : RecvXpeerPing(id, k)
    \/ \E id \in DriverIds, state \in RemoteStates : RecvState(id, state)
    \/ \E id \in DriverIds : TimePasses(id)

SpecPeer == Init /\ [][NextPeer]_vars

\* A step of the k-th goroutine running Run for a peer.
DriverStep(id, k) ==
    \/ DriverCall(id, k)
    \/ ConnectingCall(id, k)
    \/ RequestedIPEnter(id, k)
    \/ RequestedIPPoll(id, k)
    \/ \E sentOk \in BOOLEAN : RequestedIPTick(id, k, sentOk)
    \/ WaitingForProxyEnter(id, k)
    \/ WaitingForProxyReturn(id, k)
    \/ DriverExit(id, k)

\* A peer of a client whose goroutines are scheduled: a driver that can take
\* a step takes one. The trackers and the peer send what they send when
\* they do, or never.
NextLive ==
    \/ Initialize(<<"a">>, "net-X", {})
    \/ dht.ID = "" /\ ListenDHT(1, DHTResponse("conn", "u1", <<>>))
    \/ \E id \in DriverIds : dht.Connection # <<>> /\ AddPeer(id)
    \/ \E id \in DriverIds : RunPeer(id)
    \/ \E id \in DriverIds, k \in 1..MaxDrivers : DriverStep(id, k)
    \/ \E id \in DriverIds : RecvNode(id, PublicAddr)
    \/ \E id \in DriverIds :
           RecvIntro(id, "10.10.0.1", "06:00:00:00:00:01", PrivateAddr)
    \/ \E id \in DriverIds, k \in 1..MaxEndpoints : RecvXpeerPing(id, k)

SpecLive ==
    /\ Init
    /\ [][NextLive]_vars
    /\ \A id \in DriverIds, k \in 1..MaxDrivers : WF_vars(DriverStep(id, k))

\* A peer of a client that sets the state of its peers to Stop when it
\* shuts down.
NextStop ==
    \/ NextPeer
    \/ \E id \in DriverIds : StopPeer(id)

SpecStop == Init /\ [][NextStop]_vars

\* The tracker client: Initialize, the datagrams of the trackers, and the
\* periodic refresh.
NextDht ==
    \/ \E list \in RouterLists, hash \in NetworkHashes,
          failing \in SUBSET RouterNames : Initialize(Join(list), hash, failing)
    \/ DhtConn
    \/ DhtPing
    \/ DhtFind({<<>>, <<"a", Comma>>})
    \/ DhtOther
    \/ UpdatePeers

SpecDht == Init /\ [][NextDht]_vars

\* The peers a client has caught: find replies with every dest.
NextCatch ==
    \/ Initialize(<<"a">>, "net-X", {})
    \/ DhtFind(DestTexts)

SpecCatch == Init /\ [][NextCatch]_vars

\* The handlers of a driver, from a peer in Routing or Connected.
InitHandler ==
    /\ NodeList = <<>>
    /\ ControlPeers = <<>>
    /\ pingPc = "sleep"
    /\ removeKeys = <<>>
    /\ sweepI = 1
    /\ sweepN = 0
    /\ dialFails = {}
    /\ stopped = {}
    /\ lastReq = NoReq
    /\ sent = NoSend
    /\ Tunnels = <<>>
    /\ lastMsg = NoMsg
    /\ fwd = NoFwd
    /\ \E np \in HandlerInputs :
           /\ peers = (np.ID :> np)
           /\ tableIPID = updateTables(<<>>, np.ID, UpdateIP(np))
           /\ tableMacID = updateTables(<<>>, np.ID, UpdateMac(np))
    /\ lastOp = NoOp
    /\ drivers = [id \in PeerIds |-> IF id \in DriverIds THEN <<NewDriver>> ELSE <<>>]
    /\ lastRun = NoRun
    /\ dht = [DHTClientConfig EXCEPT !.ID = "u1"]
    /\ lastDht = NoDht
    /\ HolePunching = FALSE
    /\ senders = [id \in PeerIds |-> <<>>]

NextHandler == \E id \in DriverIds, k \in 1..MaxDrivers : DriverCall(id, k)

SpecHandler == InitHandler /\ [][NextHandler]_vars

\* The known addresses of a peer that is about to punch.
PunchAddrs ==
    {<<PublicAddr>>, <<PrivateAddr, PublicAddr>>, <<NoIPAddr, PublicAddr>>}

\* Two peers about to connect over the Internet, a goroutine running Run
\* for each; the client has an id, of the length of a UUID or not.
InitPunch ==
    /\ NodeList = <<>>
    /\ ControlPeers = <<>>
    /\ pingPc = "sleep"
    /\ removeKeys = <<>>
    /\ sweepI = 1
    /\ sweepN = 0
    /\ dialFails = {}
    /\ stopped = {}
    /\ lastReq = NoReq
    /\ sent = NoSend
    /\ Tunnels = <<>>
    /\ lastMsg = NoMsg
    /\ fwd = NoFwd
    /\ \E known \in [PeerIds -> PunchAddrs] :
           peers = [id \in PeerIds |->
                        [NewPeer(id, Nil, Nil) EXCEPT
                             !.State = PeerStateConnectingInternet,
                             !.KnownIPs = known[id], !.Running = TRUE]]
    /\ tableIPID = <<>>
    /\ tableMacID = <<>>
    /\ lastOp = NoOp
    /\ drivers = [id \in PeerIds |-> <<NewDriver>>]
    /\ lastRun = NoRun
    /\ \E id \in {"u1", ShortId} : dht = [DHTClientConfig EXCEPT !.ID = id]
    /\ lastDht = NoDht
    /\ HolePunching = FALSE
    /\ senders = [id \in PeerIds |-> <<>>]

NextPunch ==
    \/ \E id \in PeerIds, k \in 1..MaxDrivers : ConnectingInternetEnter(id, k)
    \/ \E id \in PeerIds, k \in 1..MaxDrivers : HolePunchLock(id, k)
    \/ \E id \in PeerIds, k \in 1..MaxDrivers : HolePunchSend(id, k)
    \/ \E id \in PeerIds, k \in 1..MaxDrivers : HolePunchSuccess(id, k)
    \/ \E id \in PeerIds, k \in 1..MaxDrivers : HolePunchFail(id, k)
    \/ \E id \in PeerIds, k \in 1..MaxDrivers : PunchTimePasses(id, k)
    \/ \E id \in PeerIds : RecvTest(id)
    \/ \E id \in DriverIds : RunPeer(id)

SpecPunch == InitPunch /\ [][NextPunch]_vars

\* A step of the k-th goroutine of a peer in the legacy connecting states.
PunchStep(id, k) ==
    \/ ConnectingInternetEnter(id, k)
    \/ HolePunchLock(id, k)
    \/ HolePunchSend(id, k)
    \/ HolePunchSuccess(id, k)
    \/ HolePunchFail(id, k)

\* The same, the goroutines being scheduled.
SpecPunchLive ==
    /\ InitPunch
    /\ [][NextPunch]_vars
    /\ \A id \in PeerIds, k \in 1..MaxDrivers : WF_vars(PunchStep(id, k))

\* A peer in Init with one goroutine running Run, the client having its id:
\* the handlers of the driver, and the receive task writing what the peer and
\* the tracker send.
InitSelf ==
    /\ NodeList = <<>>
    /\ ControlPeers = <<>>
    /\ pingPc = "sleep"
    /\ removeKeys = <<>>
    /\ sweepI = 1
    /\ sweepN = 0
    /\ dialFails = {}
    /\ stopped = {}
    /\ lastReq = NoReq
    /\ sent = NoSend
    /\ Tunnels = <<>>
    /\ lastMsg = NoMsg
    /\ fwd = NoFwd
    /\ peers = ("p1" :> [NewPeer("p1", Nil, Nil) EXCEPT !.Running = TRUE])
    /\ tableIPID = <<>>
    /\ tableMacID = <<>>
    /\ lastOp = NoOp
    /\ drivers = [id \in PeerIds |-> IF id \in DriverIds THEN <<NewDriver>> ELSE <<>>]
    /\ lastRun = NoRun
    /\ dht = [DHTClientConfig EXCEPT !.ID = "u1"]
    /\ lastDht = NoDht
    /\ HolePunching = FALSE
    /\ senders = [id \in PeerIds |-> <<>>]

NextSelf ==
    \/ \E id \in DriverIds, k \in 1..MaxDrivers : DriverCall(id, k)
    \/ \E id \in DriverIds, k \in 1..MaxDrivers : ConnectingCall(id, k)
    \/ \E id \in DriverIds, k \in 1..MaxDrivers : RequestedIPEnter(id, k)
    \/ \E id \in DriverIds, k \in 1..MaxDrivers : RequestedIPPoll(id, k)
    \/ \E id \in DriverIds, k \in 1..MaxDrivers, sentOk \in BOOLEAN :
           RequestedIPTick(id, k, sentOk)
    \/ \E id \in DriverIds, k \in 1..MaxDrivers : WaitingForProxyEnter(id, k)
    \/ \E id \in DriverIds, k \in 1..MaxDrivers : WaitingForProxyReturn(id, k)
    \/ \E id \in DriverIds, k \in 1..MaxDrivers : DriverExit(id, k)
    \/ \E id \in DriverIds : RecvNode(id, PublicAddr)
    \/ \E id \in DriverIds :
           RecvIntro(id, "10.10.0.1", "06:00:00:00:00:01", PrivateAddr)
    \/ \E id \in DriverIds, k \in 1..MaxEndpoints : RecvXpeerPing(id, k)
    \/ \E id \in DriverIds, state \in RemoteStates : RecvState(id, state)
    \/ \E id \in DriverIds : TimePasses(id)

SpecSelf == InitSelf /\ [][NextSelf]_vars

\* A peer waiting for a forwarder, with one goroutine running Run; no
\* handshake is ever answered.
InitForwarder ==
    /\ NodeList = <<>>
    /\ ControlPeers = <<>>
    /\ pingPc = "sleep"
    /\ removeKeys = <<>>
    /\ sweepI = 1
    /\ sweepN = 0
    /\ dialFails = {}
    /\ stopped = {}
    /\ lastReq = NoReq
    /\ sent = NoSend
    /\ Tunnels = <<>>
    /\ lastMsg = NoMsg
    /\ fwd = NoFwd
    /\ \E proxies \in {<<>>, <<ForwarderAddr>>, <<PublicAddr, ForwarderAddr>>},
          known \in {<<PublicAddr>>, <<PrivateAddr, PublicAddr>>} :
           peers = ("p1" :> [NewPeer("p1", Nil, Nil) EXCEPT
                                 !.State = PeerStateWaitingForwarder,
                                 !.KnownIPs = known, !.PeerAddr = known[1],
                                 !.Proxies = proxies, !.Running = TRUE])
    /\ tableIPID = <<>>
    /\ tableMacID = <<>>
    /\ lastOp = NoOp
    /\ drivers = [id \in PeerIds |-> IF id \in DriverIds THEN <<NewDriver>> ELSE <<>>]
    /\ lastRun = NoRun
    /\ dht = [DHTClientConfig EXCEPT !.ID = "u1"]
    /\ lastDht = NoDht
    /\ HolePunching = FALSE
    /\ senders = [id \in PeerIds |-> <<>>]

\* A step of the k-th goroutine of a peer of the forwarder path.
ForwarderStep(id, k) ==
    \/ \E cached \in {NilAddr, ForwarderAddr} : ForwarderCall(id, k, cached)
    \/ DriverCall(id, k)
    \/ DriverExit(id, k)

NextForwarder ==
    \/ \E id \in DriverIds, k \in 1..MaxDrivers,
          cached \in {NilAddr, ForwarderAddr} : ForwarderCall(id, k, cached)
    \/ \E id \in DriverIds, k \in 1..MaxDrivers : DriverCall(id, k)
    \/ \E id \in DriverIds, k \in 1..MaxDrivers : DriverExit(id, k)
    \/ \E id \in DriverIds, addr \in {ForwarderAddr, PublicAddr} :
           RecvForwarder(id, addr)
    \/ \E id \in DriverIds : RunPeer(id)

SpecForwarder ==
    /\ InitForwarder
    /\ [][NextForwarder]_vars
    /\ \A id \in DriverIds, k \in 1..MaxDrivers : WF_vars(ForwarderStep(id, k))

\* A peer that waits for the other side, with one goroutine running Run.
WaitRemoteStates ==
    {PeerStateInit, PeerStateConnectingDirectlyWait, PeerStateConnectingDirectly,
     PeerStateConnectingInternetWait, PeerStateConnectingInternet}

InitWait ==
    /\ NodeList = <<>>
    /\ ControlPeers = <<>>
    /\ pingPc = "sleep"
    /\ removeKeys = <<>>
    /\ sweepI = 1
    /\ sweepN = 0
    /\ dialFails = {}
    /\ stopped = {}
    /\ lastReq = NoReq
    /\ sent = NoSend
    /\ Tunnels = <<>>
    /\ lastMsg = NoMsg
    /\ fwd = NoFwd
    /\ \E w \in WaitStates :
           peers = ("p1" :> [NewPeer("p1", Nil, Nil) EXCEPT
                                 !.State = w, !.Running = TRUE])
    /\ tableIPID = <<>>
    /\ tableMacID = <<>>
    /\ lastOp = NoOp
    /\ drivers = [id \in PeerIds |-> IF id \in DriverIds THEN <<NewDriver>> ELSE <<>>]
    /\ lastRun = NoRun
    /\ dht = [DHTClientConfig EXCEPT !.ID = "u1"]
    /\ lastDht = NoDht
    /\ HolePunching = FALSE
    /\ senders = [id \in PeerIds |-> <<>>]

NextWait ==
    \/ \E id \in DriverIds, k \in 1..MaxDrivers : WaitEnter(id, k)
    \/ \E id \in DriverIds, k \in 1..MaxDrivers : WaitRound(id, k)
    \/ \E id \in DriverIds, k \in 1..MaxDrivers : WaitMinutePasses(id, k)
    \/ \E id \in DriverIds, state \in WaitRemoteStates : RecvState(id, state)
    \/ \E id \in DriverIds : StopPeer(id)
    \/ \E id \in DriverIds : RunPeer(id)

SpecWait == InitWait /\ [][NextWait]_vars

\* A peer that has its addresses and is about to connect, with one
\* goroutine running Run.
IntroAddrs == {<<>>, <<PublicAddr>>, <<PrivateAddr, PublicAddr>>}

InitIntro ==
    /\ NodeList = <<>>
    /\ ControlPeers = <<>>
    /\ pingPc = "sleep"
    /\ removeKeys = <<>>
    /\ sweepI = 1
    /\ sweepN = 0
    /\ dialFails = {}
    /\ stopped = {}
    /\ lastReq = NoReq
    /\ sent = NoSend
    /\ Tunnels = <<>>
    /\ lastMsg = NoMsg
    /\ fwd = NoFwd
    /\ \E known \in IntroAddrs, remote \in RemoteStates :
           peers = ("p1" :> [NewPeer("p1", Nil, Nil) EXCEPT
                                 !.State = PeerStateConnecting,
                                 !.RemoteState = remote,
                                 !.KnownIPs = known, !.Running = TRUE])
    /\ tableIPID = <<>>
    /\ tableMacID = <<>>
    /\ lastOp = NoOp
    /\ drivers = [id \in PeerIds |-> IF id \in DriverIds THEN <<NewDriver>> ELSE <<>>]
    /\ lastRun = NoRun
    /\ dht = [DHTClientConfig EXCEPT !.ID = "u1"]
    /\ lastDht = NoDht
    /\ HolePunching = FALSE
    /\ senders = [id \in PeerIds |-> <<>>]

NextIntro ==
    \/ \E id \in DriverIds, k \in 1..MaxDrivers : ConnectingCall(id, k)
    \/ \E id \in DriverIds, k \in 1..MaxDrivers : DriverCall(id, k)
    \/ \E id \in DriverIds, j \in 1..MaxSenders : IntroRound(id, j)

SpecIntro == InitIntro /\ [][NextIntro]_vars

\* ----------------------------------------------------------------- claims

Count(seq, e) == Cardinality({i \in DOMAIN seq : seq[i] = e})

RegisteredAt(list, addr) ==
    {k \in Indices(list) : list[k].ConnectionAddress = addr}

\* A node that has declared an endpoint: a conn of it with a port that
\* resolves has been handled.
HasDeclared(node) == Len(node.Endpoint) = 2

\* C1: a find carrying a fingerprint F, sent by a node that has recorded F,
\* all nodes that have recorded F having declared an endpoint, is answered
\* with a dest that holds the declared endpoint of every other node that has
\* recorded F exactly once, and does not hold the requester's own endpoint.
C1_FindListsEveryOtherOnce ==
    [][(/\ lastReq'.cmd = "find"
        /\ lastReq'.hash # ""
        /\ HashExists(NodeList, lastReq'.addr, lastReq'.hash)
        /\ \A k \in Indices(NodeList) :
               NodeList[k].AssociatedHash = lastReq'.hash
               => HasDeclared(NodeList[k]))
       => \A k \in Indices(NodeList) :
              /\ (/\ NodeList[k].AssociatedHash = lastReq'.hash
                  /\ NodeList[k].ConnectionAddress # lastReq'.addr)
                 => Count(sent'.dest, NodeList[k].Endpoint) = 1
              /\ NodeList[k].ConnectionAddress = lastReq'.addr
                 => Count(sent'.dest, NodeList[k].Endpoint) = 0]_vars

\* C2: every element of the dest of a find reply is the endpoint of a node
\* that has recorded a fingerprint and whose fingerprint is the hash of the
\* request, whatever that hash is: a node without a fingerprint is not
\* returned.
C2_FindReturnsOnlyFingerprinted ==
    lastReq.cmd = "find"
    => \A i \in DOMAIN sent.dest :
           \E k \in Indices(NodeList) :
               /\ NodeList[k].Endpoint = sent.dest[i]
               /\ NodeList[k].AssociatedHash # ""
               /\ NodeList[k].AssociatedHash = lastReq.hash

\* C3: a find that carries a fingerprint leaves the fingerprint of every node
\* that has one as it is, the requester's included: it records its hash
\* only on a requester that has none.
C3_FindKeepsFingerprints ==
    [][(lastReq'.cmd = "find" /\ lastReq'.hash # "")
       => \A k \in Indices(NodeList) :
              NodeList[k].AssociatedHash # ""
              => NodeList'[k].AssociatedHash = NodeList[k].AssociatedHash]_vars

\* C4: once the ping task is through a cycle (it sleeps again, or it has
\* stopped for good), no node that has been counted MissedPingLimit times
\* without a ping is left in the node list.
C4_SilentNodeRemoved ==
    pingPc \in {"sleep", "crashed"}
    => \A k \in Indices(NodeList) : NodeList[k].MissedPing < MissedPingLimit

\* C5: handling a ping of a registered node leaves its MissedPing at 0, and a
\* node that has never been swept twice without a ping of it handled in
\* between is in the node list after every step.
C5_PingingNodeStays ==
    /\ [](lastReq.cmd = "ping"
          => \A k \in RegisteredAt(NodeList, lastReq.addr) :
                 NodeList[k].MissedPing = 0)
    /\ [][\A k \in Indices(NodeList) :
              NodeList[k].silent < 2
              => \E j \in Indices(NodeList') :
                     /\ NodeList'[j].ConnectionAddress = NodeList[k].ConnectionAddress
                     /\ NodeList'[j].ID = NodeList[k].ID]_vars

\* C5, its case: a node that answered every sweep is still listed, ahead of
\* a node registered after it that has been swept MissedPingLimit times
\* without a ping and is about to be removed.
C5_Witness ==
    /\ pingPc = "remove"
    /\ \E k, j \in Indices(NodeList) :
           /\ k < j
           /\ NodeList[k].silent < 2
           /\ NodeList[j].MissedPing >= MissedPingLimit
           /\ j \in {removeKeys[i] : i \in DOMAIN removeKeys}

\* C6: no two nodes of the node list have the same ID.
C6_UniquePeerId ==
    \A k, j \in Indices(NodeList) :
        NodeList[k].ID = NodeList[j].ID => k = j

\* C7: a conn is answered with a conn whose id is the ID of the node
\* registered at the sender's address.
C7_ConnReplyCarriesId ==
    lastReq.cmd = "conn"
    => /\ sent.cmd = "conn"
       /\ \A k \in RegisteredAt(NodeList, lastReq.addr) :
              sent.id = NodeList[k].ID

\* C8: no two nodes of the node list have the same ConnectionAddress; a
\* datagram from an address that is not in the list appends one node for it,
\* whose Endpoint is empty unless the datagram is a conn and whose
\* AssociatedHash is empty unless it is a find, and keeps the others; a
\* datagram from an address in the list adds no node.
C8_OneNodePerAddress ==
    /\ [](\A k, j \in Indices(NodeList) :
              NodeList[k].ConnectionAddress = NodeList[j].ConnectionAddress
              => k = j)
    /\ [][lastReq' # NoReq
          => LET n == Len(NodeList)
             IN /\ \A k \in 1..n :
                       /\ Len(NodeList') >= n
                       /\ NodeList'[k].ConnectionAddress = NodeList[k].ConnectionAddress
                /\ IF RegisteredAt(NodeList, lastReq'.addr) = {}
                   THEN /\ Len(NodeList') = n + 1
                        /\ NodeList'[n + 1].ConnectionAddress = lastReq'.addr
                        /\ lastReq'.cmd # "conn"
                           => NodeList'[n + 1].Endpoint = EmptyString
                        /\ lastReq'.cmd # "find"
                           => NodeList'[n + 1].AssociatedHash = ""
                   ELSE Len(NodeList') = n]_vars

\* C8, its case: with two nodes listed, a datagram from the address of the
\* first has been handled.
C8_Witness ==
    /\ Len(NodeList) >= 2
    /\ lastReq # NoReq
    /\ NodeList[1].ConnectionAddress = lastReq.addr

ValidIndices(pool) == {k \in Indices(pool) : ValidateConnection(pool[k])}

\* C9, as claimed: when several forwarders of the pool pass validation, the
\* cp reply carries the address of the one registered first.
C9_FirstValidForwarder ==
    (lastReq.cmd = "cp" /\ Cardinality(ValidIndices(ControlPeers)) >= 2)
    => /\ sent.cmd = "cp"
       /\ sent.dest = ControlPeers[Min(ValidIndices(ControlPeers))]

\* C9, amended: when several forwarders of the pool pass validation, the cp
\* reply carries the address of the one registered last.
C9_LastValidForwarder ==
    (lastReq.cmd = "cp" /\ Cardinality(ValidIndices(ControlPeers)) >= 2)
    => /\ sent.cmd = "cp"
       /\ sent.dest = ControlPeers[Max(ValidIndices(ControlPeers))]

\* C9, its case: a cp has been answered while two forwarders pass validation.
C9_Witness ==
    /\ lastReq.cmd = "cp"
    /\ Cardinality(ValidIndices(ControlPeers)) >= 2

\* C10: after a badcp of a node that names a stopped forwarder, the only one
\* the pool can hold, the pool is empty and the reply, as the next cp reply
\* would, names no forwarder.
C10_BadCPRemovesStopped ==
    (/\ lastReq.cmd = "badcp"
     /\ lastReq.hash \in stopped
     /\ lastReq.addr # lastReq.hash
     /\ \A k \in Indices(ControlPeers) : ControlPeers[k] = lastReq.hash)
    => /\ ControlPeers = <<>>
       /\ sent.dest = ZeroText

InPool(pool, addr) == \E k \in Indices(pool) : pool[k] = addr

\* C11: a badcp handled while the pool, once the badcp has done its removal,
\* holds a forwarder that validates is answered with a reply whose command
\* is cp and whose dest is the address of a forwarder of that pool.
C11_BadCPReplyNamesPoolMember ==
    (lastReq.cmd = "badcp" /\ ValidIndices(ControlPeers) # {})
    => /\ sent.cmd = "cp"
       /\ InPool(ControlPeers, sent.dest)

\* C12: no two forwarders of the pool have the same IP; a regcp from an IP
\* that is in the pool, or from an address that does not validate, leaves
\* the pool as it is and is not answered; any other regcp appends the
\* sender's address, and nothing else, at the end of the pool and is
\* answered with regcp.
C12_OneForwarderPerIP ==
    /\ [](\A k, j \in Indices(ControlPeers) :
              ControlPeers[k][1] = ControlPeers[j][1] => k = j)
    /\ [][lastReq'.cmd = "regcp"
          => IF \/ \E k \in Indices(ControlPeers) :
                       ControlPeers[k][1] = lastReq'.addr[1]
                \/ lastReq'.addr[1] \in dialFails
             THEN /\ ControlPeers' = ControlPeers
                  /\ sent' = NoSend
             ELSE /\ ControlPeers' = ControlPeers \o <<lastReq'.addr>>
                  /\ sent'.cmd = "regcp"
                  /\ sent'.to = lastReq'.addr]_vars

\* C12, its case: a regcp from another port of the IP of a forwarder of the
\* pool has been handled and not answered.
C12_Witness ==
    /\ lastReq.cmd = "regcp"
    /\ sent = NoSend
    /\ \E k \in Indices(ControlPeers) :
           /\ ControlPeers[k][1] = lastReq.addr[1]
           /\ ControlPeers[k] # lastReq.addr

\* The text of the address a PROXY payload names.
TargetText(data) == ResolveUDPAddr(0, data).addr

\* The tunnels whose two endpoints are a and b, in either order.
PairIds(tunnels, a, b) ==
    {id \in DOMAIN tunnels :
        \/ tunnels[id].Peer1.addr = a /\ tunnels[id].Peer2.addr = b
        \/ tunnels[id].Peer1.addr = b /\ tunnels[id].Peer2.addr = a}

\* C13: a PROXY frame from A whose payload is the address B, handled when a
\* tunnel with the endpoints A and B, in either order, exists, is answered with the id of
\* such a tunnel and leaves the tunnel table as it is.
C13_ProxyReusesTunnel ==
    [][(/\ lastMsg'.type = MT_PROXY
        /\ TargetText(lastMsg'.data) # NilAddr
        /\ PairIds(Tunnels, lastMsg'.src, TargetText(lastMsg'.data)) # {})
       => /\ fwd'.id \in PairIds(Tunnels, lastMsg'.src, TargetText(lastMsg'.data))
          /\ Tunnels' = Tunnels]_vars

\* The smallest id from 1 on that is no key of the table.
SmallestUnusedId(tunnels) ==
    Min({i \in 1..(Cardinality(DOMAIN tunnels) + 1) : i \notin DOMAIN tunnels})

\* C14: a PROXY frame from A whose payload is the address B, handled when no
\* tunnel has the endpoints A and B, adds one tunnel from A to B under the smallest id from
\* 1 on that is no key of the table, and the reply to A carries that id.
C14_SmallestUnusedId ==
    [][(/\ lastMsg'.type = MT_PROXY
        /\ TargetText(lastMsg'.data) # NilAddr
        /\ PairIds(Tunnels, lastMsg'.src, TargetText(lastMsg'.data)) = {})
       => LET k == SmallestUnusedId(Tunnels)
          IN /\ DOMAIN Tunnels' = DOMAIN Tunnels \cup {k}
             /\ \A id \in DOMAIN Tunnels : Tunnels'[id] = Tunnels[id]
             /\ Tunnels'[k].Peer1.addr = lastMsg'.src
             /\ Tunnels'[k].Peer2.addr = TargetText(lastMsg'.data)
             /\ fwd'.type = MT_PROXY
             /\ fwd'.to = lastMsg'.src
             /\ fwd'.id = k]_vars

\* C15: every tunnel id is in 1..MaxId (the ids being the keys of a table,
\* no two tunnels have the same id), also once a PROXY frame has been
\* handled by a forwarder whose table had a tunnel for every id of 1..MaxId.
C15_TunnelIdInRange ==
    \A id \in DOMAIN Tunnels : 1 <= id /\ id <= MaxId

KeysOf(table, id) == {k \in DOMAIN table : table[k] = id}

\* C17: after Update(id, peer) the keys of the IP table that map to id are
\* the text of the peer's IP and nothing else, none if it has no IP, and the
\* keys of the MAC table that map to id are the text of the peer's MAC and
\* nothing else: what an earlier Update of id put there is gone.
C17_UpdateSynchronizesIndexes ==
    lastOp.op = "update"
    => /\ KeysOf(tableIPID, lastOp.id) = {lastOp.ip} \ {""}
       /\ KeysOf(tableMacID, lastOp.id) = {lastOp.mac} \ {""}

\* C18: after Delete(id) of a peer that was in the table, id is no key of
\* peers, the text of the peer's IP is no key of the IP table and the text
\* of its MAC is no key of the MAC table.
C18_DeleteRemovesEntries ==
    [][(lastOp'.op = "delete" /\ lastOp'.id \in DOMAIN peers)
       => /\ lastOp'.id \notin DOMAIN peers'
          /\ IPString(peers[lastOp'.id].PeerLocalIP) \notin DOMAIN tableIPID'
          /\ HWString(peers[lastOp'.id].PeerHW) \notin DOMAIN tableMacID'
          /\ \A k \in DOMAIN peers \ {lastOp'.id} :
                 k \in DOMAIN peers' /\ peers'[k] = peers[k]]_vars

\* C18, its case: a peer with an IP and a MAC has been deleted while another
\* peer, with entries of its own in both tables, stays.
C18_Witness ==
    /\ lastOp.op = "delete"
    /\ lastOp.exists
    /\ lastOp.ip \in OverlayIPs
    /\ lastOp.mac \in OverlayMacs
    /\ \E k \in DOMAIN peers :
           /\ KeysOf(tableIPID, k) # {}
           /\ KeysOf(tableMacID, k) # {}

\* C19: for every peer of the table whose State is Connected, the text of
\* its MAC is a key of the MAC table, the text of its IP is a key of the IP
\* table, and both map to the id of the peer.
C19_ConnectedPeerIndexed ==
    \A id \in DOMAIN peers :
        peers[id].State = PeerStateConnected
        => /\ peers[id].PeerHW # Nil
           /\ peers[id].PeerLocalIP # Nil
           /\ HWString(peers[id].PeerHW) \in KeysOf(tableMacID, id)
           /\ IPString(peers[id].PeerLocalIP) \in KeysOf(tableIPID, id)

\* C20: no peer of the table has more than one goroutine running Run,
\* whatever RunPeer calls are made for it.
C20_OneDriverPerPeer ==
    \A id \in DOMAIN peers : Len(drivers[id]) <= 1

\* C21: a call of stateRequestedIP that gives up because no address of the
\* peer came, every sendNode having returned no error, has sent the node
\* request again exactly 5 times when it sets the state to Disconnect.
C21_FiveNodeRetries ==
    [][\A id \in DOMAIN peers :
          (/\ lastRun'.id = id
           /\ lastRun'.handler = PeerStateRequestedIP
           /\ ~lastRun'.err
           /\ peers[id].State # PeerStateDisconnect
           /\ peers'[id].State = PeerStateDisconnect)
          => lastRun'.nodes = 5]_vars

\* C22: a call of stateInit adds one to ConnectionAttempts and leaves the
\* peer in Disconnect when the counter is then above 5, in RequestedIP
\* otherwise; and no goroutine running Run makes more than 5 calls of
\* stateInit that leave the peer in RequestedIP.
C22_AtMostFiveAttempts ==
    /\ [][\A id \in DOMAIN peers :
            (lastRun'.id = id /\ lastRun'.handler = PeerStateInit)
            => /\ peers'[id].ConnectionAttempts = peers[id].ConnectionAttempts + 1
               /\ peers'[id].State =
                      IF peers'[id].ConnectionAttempts > 5
                      THEN PeerStateDisconnect ELSE PeerStateRequestedIP]_vars
    /\ [](\A id \in DOMAIN peers : \A k \in Indices(drivers[id]) :
              drivers[id][k].passes <= 5)

\* The class of an endpoint for stateRouting's order: 1 for a private
\* address, 2 for a public one, 3 for a proxy of the peer.
EndpointClass(np, addr) ==
    IF \E k \in Indices(np.Proxies) : np.Proxies[k] = addr THEN 3
    ELSE IF addr = PrivateAddr THEN 1 ELSE 2
RecentAddrs(np) ==
    {np.Endpoints[k].Addr : k \in {i \in Indices(np.Endpoints) :
                                      np.Endpoints[i].LastContact = "recent"}}

C25_StopStays ==
    [][\A id \in DOMAIN peers :
          peers[id].State = PeerStateStop
          => id \in DOMAIN peers' /\ peers'[id].State = PeerStateStop]_vars

\* The elements of a comma-separated text: its longest parts without a
\* comma, the empty ones left out.
Elements(text) ==
    {SubSeq(text, i, j) : i \in Indices(text), j \in Indices(text)} \cap
    {part \in UNION {[1..n -> Chars] : n \in 1..Len(text)} :
        \E i \in Indices(text) :
            /\ i + Len(part) - 1 <= Len(text)
            /\ SubSeq(text, i, i + Len(part) - 1) = part
            /\ (i = 1 \/ text[i - 1] = Comma)
            /\ (i + Len(part) - 1 = Len(text) \/ text[i + Len(part)] = Comma)}
Range(list) == {list[k] : k \in Indices(list)}

\* C29: a find reply with a dest adds to LastCatch the non-empty elements of
\* the dest that are not in it, each once, and nothing else; what was in
\* LastCatch stays where it was; and a second merge of the same dest
\* changes nothing.
C29_MergeCatch ==
    [][(lastDht'.op = "ListenDHT" /\ lastDht'.data.cmd = "find"
        /\ lastDht'.data.dest # <<>>)
       => LET old == dht.LastCatch
              new == dht'.LastCatch
              dest == lastDht'.data.dest
          IN /\ Range(new) = Range(old) \cup Elements(dest)
             /\ <<>> \notin Range(new)
             /\ Len(new) = Cardinality(Range(new))
             /\ SubSeq(new, 1, Len(old)) = old
             /\ UpdateLastCatch(new, dest) = new]_vars

\* C29 witness: a find reply whose dest ends with a comma has been merged
\* into the peers caught before, the element of the dest among them.
C29_Witness ==
    /\ lastDht.op = "ListenDHT"
    /\ lastDht.data.cmd = "find"
    /\ lastDht.data.dest = <<"a", Comma>>
    /\ dht.LastCatch = << <<"b">>, <<"a">> >>

\* The places of the finds among the requests written in the last step.
FindsWritten(did) == {k \in Indices(did.sent) : did.sent[k].cmd = "find"}

\* C28: a ListenDHT goroutine that reads a conn reply stores its id as the
\* id of the client and writes one request, a find with the fingerprint of
\* the network ("0" if the client has none), on the connection it read
\* from; and a find is written to a tracker only so, or by UpdatePeers.
C28_FindAfterConn ==
    [][/\ (lastDht'.op = "ListenDHT" /\ lastDht'.data.cmd = "conn")
          => /\ dht'.ID = lastDht'.data.id
             /\ Len(lastDht'.sent) = 1
             /\ lastDht'.sent[1].cmd = "find"
             /\ lastDht'.sent[1].to = dht.Connection[lastDht'.conn]
             /\ lastDht'.sent[1].hash =
                   IF dht.NetworkHash = "" THEN "0" ELSE dht.NetworkHash
       /\ FindsWritten(lastDht') # {}
          => \/ lastDht'.op = "UpdatePeers"
             \/ lastDht'.op = "ListenDHT" /\ lastDht'.data.cmd = "conn"]_vars

\* C28 witness: the second of two trackers has sent a conn reply to a client
\* that has a fingerprint, and the client has its id.
C28_Witness ==
    /\ lastDht.op = "ListenDHT"
    /\ lastDht.data.cmd = "conn"
    /\ lastDht.conn = 2
    /\ dht.Connection = << <<"a">>, <<"b">> >>
    /\ dht.NetworkHash = "net-X"
    /\ dht.ID = "u2"

\* C30: after Initialize every tracker of the list whose resolve, dial or
\* handshake failed is in FailedRouters, and every other tracker of the
\* list has a connection in Connection that a ListenDHT goroutine reads.
C30_FailedRoutersRecorded ==
    lastDht.op = "Initialize"
    => /\ \A router \in lastDht.failed : router \in Range(dht.FailedRouters)
       /\ \A router \in Range(Split(dht.Routers)) \ lastDht.failed :
              \E k \in Indices(dht.Connection) :
                  dht.Connection[k] = router /\ k \in dht.Listening

\* C26: a peer that is in Init and has a goroutine running Run is later in
\* Connected or in Disconnect, the goroutines being scheduled.
C26_DriverReachesVerdict ==
    \A id \in DriverIds :
        (id \in DOMAIN peers /\ drivers[id] # <<>>
         /\ peers[id].State = PeerStateInit)
        ~> (id \in DOMAIN peers
            /\ peers[id].State \in {PeerStateConnected, PeerStateDisconnect})

\* The goroutines that are inside the send loop of holePunch.
Punching ==
    {<<id, k>> \in PeerIds \X (1..MaxDrivers) :
         k \in Indices(drivers[id]) /\ drivers[id][k].pc = "holePunch"}

\* The goroutines that wait at the Lock of holePunch.
AtLock ==
    {<<id, k>> \in PeerIds \X (1..MaxDrivers) :
         k \in Indices(drivers[id]) /\ drivers[id][k].pc = "Lock"}

\* C27: at no time are two goroutines of the peers of a client inside the
\* send loop of holePunch, and the mutex is locked exactly while one is.
C27_OnePunchInFlight ==
    /\ Cardinality(Punching) <= 1
    /\ HolePunching = (Punching # {})

\* C27 (witness): a goroutine of one peer is inside the send loop while a
\* goroutine of another peer waits at the Lock.
C27_Witness ==
    \E a \in Punching, b \in AtLock : a[1] # b[1]

\* C31: a goroutine started by stateConnecting makes at most 10 passes of
\* its loop, each sending an INTRO_REQ to every known address, and the peer
\* is in Routing as soon as stateConnecting has returned.
C31_TenIntroRounds ==
    \A id \in DriverIds :
        /\ \A j \in Indices(senders[id]) : senders[id][j].sent <= IntroRounds
        /\ (lastRun.id = id /\ lastRun.handler = PeerStateConnecting)
               => peers[id].State = PeerStateRouting

\* C32: a goroutine inside the send loop of holePunch for which 10 s have
\* passed leaves holePunch, whatever the endpoint, and the step by which a
\* goroutine leaves holePunch unlocks the mutex.
C32_PunchEndsAndUnlocks ==
    /\ \A id \in PeerIds, k \in 1..MaxDrivers :
           (k \in Indices(drivers[id]) /\ drivers[id][k].pc = "holePunch"
            /\ drivers[id][k].late)
           ~> (k \in Indices(drivers[id]) /\ drivers[id][k].pc # "holePunch")
    /\ [][\A id \in PeerIds, k \in 1..MaxDrivers :
             (k \in Indices(drivers[id]) /\ drivers[id][k].pc = "holePunch"
              /\ drivers'[id][k].pc # "holePunch")
             => ~HolePunching']_vars

\* C33: a round of a wait handler leaves the peer's state as it is or sets
\* the state the wait state leads to; it sets that state when the peer is
\* in the wait state and the other side reports the wait state or the state
\* it leads to, or a minute has passed for the goroutine, and leaves the
\* wait state alone otherwise.
C33_WaitAdvances ==
    [][\A id \in DriverIds, w \in WaitStates :
           (lastRun'.id = id /\ lastRun'.handler = w)
           => LET np == peers[id]
                  k == lastRun'.nodes
                  due == \/ np.RemoteState \in {w, Advanced(w)}
                         \/ drivers[id][k].late
              IN /\ peers'[id].State \in {np.State, Advanced(w)}
                 /\ (np.State = w /\ due) => peers'[id].State = Advanced(w)
                 /\ (np.State = w /\ ~due) => peers'[id].State = w]_vars

\* C33 (witness): a wait handler has returned with the error of the timeout
\* and the peer is in the state the wait state leads to, the other side
\* having reported neither state.
C33_Witness ==
    \E id \in DriverIds, w \in WaitStates :
        /\ lastRun = Ran(id, w, lastRun.nodes, TRUE)
        /\ peers[id].State = Advanced(w)
        /\ peers[id].RemoteState \notin {w, Advanced(w)}

\* C34: the ping task is never stopped by a runtime fault: no step of its
\* removal loop reads the node list past its end.
C34_PingNeverFaults == pingPc # "crashed"

\* C35: a step of the ping task that removes a node removes one whose
\* MissedPing is at least MissedPingLimit at that moment.
C35_RemovedOnlyWhenSilent ==
    [][(pingPc = "remove" /\ Len(NodeList') < Len(NodeList))
       => NodeList[Head(removeKeys)].MissedPing >= MissedPingLimit]_vars

\* C36: every key of the IP table and every key of the MAC table maps to an
\* id that is a key of peers.
C36_IndexesPointToPeers ==
    /\ \A key \in DOMAIN tableIPID : tableIPID[key] \in DOMAIN peers
    /\ \A key \in DOMAIN tableMacID : tableMacID[key] \in DOMAIN peers

\* C37: Delete(id) leaves every key of the IP table and of the MAC table
\* that maps to another id in its table, mapping to what it mapped to.
C37_DeleteKeepsOtherEntries ==
    [][lastOp'.op = "delete"
       => /\ \A key \in DOMAIN tableIPID :
                 tableIPID[key] # lastOp'.id
                 => (key \in DOMAIN tableIPID'
                     /\ tableIPID'[key] = tableIPID[key])
          /\ \A key \in DOMAIN tableMacID :
                 tableMacID[key] # lastOp'.id
                 => (key \in DOMAIN tableMacID'
                     /\ tableMacID'[key] = tableMacID[key])]_vars

\* The states of the path from Init.
PathStates ==
    {PeerStateInit, PeerStateRequestedIP, PeerStateRequestingProxy,
     PeerStateWaitingForProxy, PeerStateConnecting, PeerStateRouting,
     PeerStateConnected, PeerStateDisconnect, PeerStateStop}

\* C38: a peer that started in Init and whose state only the handlers of
\* its driver have set is in a state of the path from Init, and in none of
\* the legacy states nor in WaitingToConnect.
C38_OnlyPathStates ==
    \A id \in DOMAIN peers : peers[id].State \in PathStates

\* C38 (witness): the handlers have taken the peer from Init through
\* RequestedIP, the proxy states, Connecting and Routing to Connected, back
\* to Init on the report of the other side, and to Stop in the end.
C38_Witness ==
    \E id \in DriverIds :
        /\ peers[id].State = PeerStateStop
        /\ peers[id].ConnectionAttempts > 1
        /\ senders[id] # <<>>
        /\ lastRun.handler = PeerStateDisconnect

\* C39: a peer in a state of the forwarder path that has a goroutine running
\* Run, no handshake being answered, is later in Stop.
C39_ForwarderPathEnds ==
    \A id \in DriverIds :
        (id \in DOMAIN peers /\ drivers[id] # <<>>
         /\ peers[id].State \in ForwarderStates)
        ~> (id \in DOMAIN peers /\ peers[id].State = PeerStateStop)

\* C40: when stateConnectingInternet has returned and the id of the client
\* has not the length of a UUID, so that every holePunch it called was
\* aborted, the peer is in Stop.
C40_AbortedPunchStops ==
    \A id \in PeerIds :
        (/\ lastRun.id = id
         /\ lastRun.handler = PeerStateConnectingInternet
         /\ lastRun.err
         /\ IdLength(dht.ID) # UuidLength
         /\ \E j \in Indices(peers[id].KnownIPs) :
                ~isPrivateIP(peers[id].KnownIPs[j]))
        => peers[id].State = PeerStateStop

====
